---- MODULE Spec2Model ----
(***************************************************************************)
(* A model of rrdns, a caching recursive DNS resolver:                     *)
(*   - the TTL cache            (src/src/resolver/cache.rs)                *)
(*   - the reactor              (src/src/reactor.rs)                       *)
(*   - the resolver             (src/src/resolver.rs)                      *)
(*   - the front-end handler    (src/src/handler.rs, src/src/main.rs)      *)
(*   - the parts of the codec the above depend on                          *)
(*                              (src/src/business/models.rs)               *)
(*                                                                         *)
(* Domain names are sequences of tokens: a token is a label or the dot     *)
(* ".", so "ex.com." is <<"ex", ".", "com", ".">>.  Labels hold no dot.    *)
(***************************************************************************)
EXTENDS Integers, Sequences, FiniteSets, TLC

VARIABLES
    now,        \* the system clock, seconds since the epoch
    store,      \* InMemoryCache.store: owner -> (qtype -> sequence of cached RRs)
    lastOp,     \* the last call made on the cache interface by the cache driver
    inserts,    \* number of driver inserts made so far
    world,      \* the zone data the authoritative servers answer from
    chan,       \* the reactor's request queue (mpsc channel of ReactorQuery)
    registry,   \* Reactor::run's registry: transaction id -> ReactorQuery
    reactor,    \* "running", or the panic the reactor task has died of
    inflight,   \* the submission the reactor holds while its send_to is pending
    oneshot,    \* per task: the one-shot channel of its outstanding request
    sent,       \* datagrams the reactor wrote to its socket, not yet answered
    wire,       \* datagrams on their way to the reactor's socket
    regOrder,   \* the ids of the registry, in the order they were registered
    injected,   \* number of datagrams the network made up
    stack,      \* per task: the call stack of its resolution
    ret,        \* per task: the value the last returning call produced
    tstate,     \* per task: "idle", "running", "done", "cancelled" or its panic
    client,     \* per task: the datagram its client sends, if any
    calls,      \* number of client datagrams accepted so far
    respq,      \* the channel from the process tasks to the writer task
    outbox,     \* datagrams the writer task sent to clients
    failures,   \* the rrdns_resolution_failure counter
    writer,     \* the writer task: idle, at its send_to, or dead of a panic
    mutex       \* the Mutex around the cache: "free" or the task that holds it

vars == <<now, store, lastOp, inserts, world, chan, registry, reactor, oneshot,
          sent, wire, regOrder, injected, stack, ret, tstate, client, calls,
          respq, outbox, failures, mutex, inflight, writer>>

cacheVars   == <<now, store, lastOp, inserts, mutex>>
reactorVars == <<chan, registry, reactor, oneshot, sent, wire, regOrder, injected,
                 inflight>>
taskVars    == <<stack, ret, tstate, client, calls, respq, outbox, failures, writer>>

-----------------------------------------------------------------------------
(* Names *)

DOT == "."

Root == <<DOT>>

EndsWithDot(n) == Len(n) > 0 /\ n[Len(n)] = DOT

\* format!("{}.", name) / String::push('.')
PushDot(n) == Append(n, DOT)

\* Option<T>
None == [some |-> FALSE]
Some(v) == [some |-> TRUE, val |-> v]

\* The elements of a sequence
Range(s) == {s[i] : i \in 1..Len(s)}

-----------------------------------------------------------------------------
(* Resource records *)

\* A ResourceRecord: the Type enum is split in its tag (type) and its payload
\* (data).  rd_length is not modelled.
RR(name, type, data, ttl) ==
    [name |-> name, type |-> type, data |-> data, class |-> "IN", ttl |-> ttl]

\* Type::to_qtype
ToQType(type) ==
    CASE type = "A" -> "A"
      [] type = "NS" -> "NS"
      [] type = "CNAME" -> "CNAME"
      [] type = "SOA" -> "SOA"
      [] type = "PTR" -> "PTR"
      [] type = "HINFO" -> "HINFO"
      [] type = "MX" -> "MX"
      [] type = "AAAA" -> "AAAA"
      [] type = "TXT" -> "TXT"

\* impl PartialEq for ResourceRecord: ttl and rd_length are not compared
RREq(a, b) == a.name = b.name /\ a.type = b.type /\ a.data = b.data /\ a.class = b.class

-----------------------------------------------------------------------------
(* The cache *)

\* str::to_lowercase on the labels of a name
LowerLabel(label) ==
    CASE label = "EX" -> "ex"
      [] label = "COM" -> "com"
      [] OTHER -> label

to_lowercase(name) == [i \in 1..Len(name) |-> LowerLabel(name[i])]

\* The TTL of the records of named.root
RootTTL == 3600000

RootCount == 13

RootLetters == <<"a", "b", "c", "d", "e", "f", "g", "h", "i", "j", "k", "l", "m">>

RootServer(i) == <<RootLetters[i], DOT, "root-servers", DOT, "net", DOT>>

RootV4(i) == "v4-root-" \o RootLetters[i]
RootV6(i) == "v6-root-" \o RootLetters[i]

CRR(rr, t) == [rr |-> rr, last_refreshed_at |-> t]

\* InMemoryCache::load_root_name_servers: the records of named.root, each
\* stamped with the time of loading
load_root_name_servers(t) ==
    [kind \in {"NS", "A", "AAAA"} |->
        [i \in 1..RootCount |->
            CASE kind = "NS" -> CRR(RR(Root, "NS", RootServer(i), RootTTL), t)
              [] kind = "A" -> CRR(RR(RootServer(i), "A", RootV4(i), RootTTL), t)
              [] kind = "AAAA" -> CRR(RR(RootServer(i), "AAAA", RootV6(i), RootTTL), t)]]

\* A store preloaded with the NS records of the root only
NewCacheWithoutGlue(t) ==
    [o \in {Root} |-> [q \in {"NS"} |-> load_root_name_servers(t)["NS"]]]

\* InMemoryCache::new: the store keyed by owner, then by qtype
NewCache(t) ==
    LET hints == load_root_name_servers(t)
        owners == {to_lowercase(Root)}
                  \cup {to_lowercase(RootServer(i)) : i \in 1..RootCount}
        idx(o) == CHOOSE i \in 1..RootCount : to_lowercase(RootServer(i)) = o
    IN  [o \in owners |->
            IF o = Root
            THEN [q \in {"NS"} |-> hints["NS"]]
            ELSE [q \in {"A", "AAAA"} |-> <<hints[q][idx(o)]>>]]

is_expired_strict(crr, t) == t - crr.last_refreshed_at >= crr.rr.ttl

\* CachedResourceRecord::is_expired.  The clock does not run backwards, so
\* the unsigned subtraction does not wrap.
is_expired(crr, t) == t - crr.last_refreshed_at > crr.rr.ttl

\* The RRSet stored under (domain, qtype), empty when there is none
Bucket(st, domain, qtype) ==
    IF domain \in DOMAIN st /\ qtype \in DOMAIN st[domain]
    THEN st[domain][qtype]
    ELSE <<>>

\* The rr of each element of a sequence of cached RRs
Unwrap(crrs) == [i \in 1..Len(crrs) |-> crrs[i].rr]

\* InMemoryCache::get
Get(st, t, domain, qtype) ==
    IF domain \in DOMAIN st /\ qtype \in DOMAIN st[domain]
    THEN LET result == Unwrap(SelectSeq(st[domain][qtype],
                                         LAMBDA crr : ~is_expired(crr, t)))
         IN  IF Len(result) = 0 THEN None ELSE Some(result)
    ELSE None

\* The owner key insert2 files a record under
InsertKey(rr) == IF ~EndsWithDot(rr.name) THEN PushDot(rr.name) ELSE rr.name

\* insert2's test for a record already present
AlreadyCached(cached_rrs, domain, qtype) ==
    \E i \in 1..Len(cached_rrs) :
        cached_rrs[i].rr.name = domain /\ ToQType(cached_rrs[i].rr.type) = qtype

\* st with the RRSet at (domain, qtype) replaced
WithBucket(st, domain, qtype, crrs) ==
    LET qmap == IF domain \in DOMAIN st THEN st[domain] ELSE << >>
        qmap2 == [q \in DOMAIN qmap \cup {qtype} |->
                    IF q = qtype THEN crrs ELSE qmap[q]]
    IN  [o \in DOMAIN st \cup {domain} |-> IF o = domain THEN qmap2 ELSE st[o]]

\* InMemoryCache::insert2
Insert2(st, t, rr) ==
    LET domain == InsertKey(rr)
        qtype == ToQType(rr.type)
        cached_rrs == Bucket(st, domain, qtype)
    IN  IF ~AlreadyCached(cached_rrs, domain, qtype)
        THEN WithBucket(st, domain, qtype, Append(cached_rrs, CRR(rr, t)))
        ELSE WithBucket(st, domain, qtype, cached_rrs)

\* insert2 applied to each record of a sequence, in order
RECURSIVE InsertAll(_, _, _)
InsertAll(st, t, rrs) ==
    IF rrs = <<>> THEN st ELSE InsertAll(Insert2(st, t, Head(rrs)), t, Tail(rrs))

-----------------------------------------------------------------------------
(* The codec: messages in memory and on the wire.  On the wire a name is    *)
(* the sequence of its labels; bit and byte positions are not modelled.     *)

\* The bytes of a name: the sum of the lengths of its tokens
RECURSIVE ByteLen(_)
ByteLen(n) == IF n = <<>> THEN 0 ELSE Len(Head(n)) + ByteLen(Tail(n))

\* labels.join(".")
RECURSIVE Join(_)
Join(labels) ==
    IF Len(labels) = 0 THEN <<>>
    ELSE IF Len(labels) = 1 THEN <<labels[1]>>
    ELSE <<labels[1], DOT>> \o Join(Tail(labels))

\* write_labels / DNSQuestionQuery::serialize_domain: "." is the empty list
\* of labels, any other name its non-empty labels
write_labels(domain) ==
    IF domain = Root THEN <<>> ELSE SelectSeq(domain, LAMBDA tok : tok # DOT)

\* read_labels without compression pointers
read_labels(labels) ==
    IF labels = <<>> THEN Root
    ELSE LET joined_labels == Join(labels)
         IN  IF ByteLen(joined_labels) > 1 /\ ~EndsWithDot(joined_labels)
             THEN PushDot(joined_labels)
             ELSE joined_labels

\* The qname deserialize_question_section builds
question_name(labels) == IF labels = <<>> THEN Root ELSE Join(labels)

\* Type::to_u16
TypeCode(type) ==
    CASE type = "A" -> 1
      [] type = "NS" -> 2
      [] type = "CNAME" -> 5
      [] type = "SOA" -> 6
      [] type = "PTR" -> 12
      [] type = "HINFO" -> 13
      [] type = "MX" -> 15
      [] type = "AAAA" -> 28
      [] type = "TXT" -> 16

\* QType::to_u16, for the query types of the model
QTypeCode(qtype) == TypeCode(qtype)

\* QType::decimal_to_qtype
KnownQTypeCodes == {1, 2, 5, 6, 12, 15, 16, 28, 252, 253, 254, 255}

decimal_to_qtype(code) ==
    CASE code = 1 -> "A"
      [] code = 2 -> "NS"
      [] code = 5 -> "CNAME"
      [] code = 6 -> "SOA"
      [] code = 12 -> "PTR"
      [] code = 15 -> "MX"
      [] code = 16 -> "TXT"
      [] code = 28 -> "AAAA"
      [] code = 252 -> "AXFR"
      [] code = 253 -> "MAILB"
      [] code = 254 -> "MAILA"
      [] code = 255 -> "STAR"

\* The type codes deserialize_resource_records decodes
KnownTypeCodes == {1, 2, 5, 6, 12, 16, 28}

\* Class::to_class
KnownClassCodes == {1, 3}

to_class(code) == IF code = 1 THEN "IN" ELSE "CH"

\* ResponseCode::to_u8
RcodeNumber(rc) ==
    CASE rc = "NoError" -> 0
      [] rc = "FormatError" -> 1
      [] rc = "NameError" -> 3
      [] rc = "NotImplemented" -> 4
      [] rc = "Refused" -> 5

\* get_response_code
get_response_code(n) ==
    CASE n = 0 -> "NoError"
      [] n = 1 -> "FormatError"
      [] n = 3 -> "NameError"
      [] n = 4 -> "NotImplemented"
      [] n = 5 -> "Refused"
      [] OTHER -> "FormatError"

\* DNSQueryHeaderSection
Header(id, is_query, aa, rd, ra, rcode, an, ns, ar) ==
    [id |-> id, is_query |-> is_query, is_authoritative_answer |-> aa,
     is_recursion_desired |-> rd, is_recursion_available |-> ra,
     response_code |-> rcode, questions_count |-> 1, answers_count |-> an,
     ns_rr_count |-> ns, additional_rr_count |-> ar]

\* DNSQuery: a header and one question
Query(header, qname, qtype) ==
    [header |-> header, qname |-> qname, qtype |-> qtype, qclass |-> "IN"]

\* Resolver::build_query, with the id that random() drew
build_query(id, qname, qtype) ==
    Query(Header(id, TRUE, FALSE, TRUE, FALSE, "NoError", 0, 0, 0), qname, qtype)

\* DNSQueryHeaderSection::serialize
serialize_header(h) ==
    [id |-> h.id, qr |-> ~h.is_query, aa |-> h.is_authoritative_answer,
     rd |-> h.is_recursion_desired, ra |-> h.is_recursion_available,
     rcode |-> RcodeNumber(h.response_code), qd |-> h.questions_count,
     an |-> h.answers_count, ns |-> h.ns_rr_count, ar |-> h.additional_rr_count]

\* A record as a server writes it: the rdata of NS, CNAME and PTR is a name
WireRR(rr) ==
    [name |-> write_labels(rr.name), tcode |-> TypeCode(rr.type),
     ccode |-> IF rr.class = "IN" THEN 1 ELSE 3, ttl |-> rr.ttl,
     rdata |-> IF rr.type \in {"NS", "CNAME", "PTR"}
               THEN write_labels(rr.data) ELSE rr.data]

WireRRs(rrs) == [i \in 1..Len(rrs) |-> WireRR(rrs[i])]

\* The types the match of ResourceRecord::serialize on the rdata has an arm for
SerializedTypes == {"A", "AAAA", "NS", "TXT", "CNAME", "SOA"}

\* panic!("ResourceRecord:serialize type not supported: ..")
PanicSerialize == "panic: ResourceRecord:serialize type not supported"

\* ResourceRecord::serialize: a record of type PTR, HINFO or MX panics
serialize_rr(rr) ==
    IF rr.type \notin SerializedTypes
    THEN PanicSerialize
    ELSE [name |-> write_labels(rr.name), tcode |-> TypeCode(rr.type),
          ccode |-> IF rr.class = "IN" THEN 1 ELSE 3, ttl |-> rr.ttl,
          rdata |-> IF rr.type \in {"NS", "CNAME"}
                    THEN write_labels(rr.data) ELSE rr.data]

\* DNSQueryResponse::serialize_resource_records
SerializeRRs(rrs) == [i \in 1..Len(rrs) |-> serialize_rr(rrs[i])]

\* Every record of the response has a type ResourceRecord::serialize writes
Serializes(r) ==
    \A rr \in Range(r.answers \o r.authority \o r.additional) :
        rr.type \in SerializedTypes

\* QClass::to_u16
QClassCode(qclass) ==
    CASE qclass = "IN" -> 1
      [] qclass = "CH" -> 2
      [] qclass = "STAR" -> 255

\* DNSQuery::serialize
serialize_query(q) ==
    [hdr |-> serialize_header(q.header), qlabels |-> write_labels(q.qname),
     qtype |-> QTypeCode(q.qtype), qclass |-> QClassCode(q.qclass), rrs |-> <<>>]

\* DNSQueryResponse::serialize: the panic of a record is the panic of the call
serialize_response(r) ==
    IF ~Serializes(r)
    THEN PanicSerialize
    ELSE [hdr |-> serialize_header(r.query.header),
          qlabels |-> write_labels(r.query.qname),
          qtype |-> QTypeCode(r.query.qtype),
          qclass |-> QClassCode(r.query.qclass),
          rrs |-> SerializeRRs(r.answers) \o SerializeRRs(r.authority)
                  \o SerializeRRs(r.additional)]

\* DNSQuery::deserialize_header_section
deserialize_header_section(h) ==
    [id |-> h.id, is_query |-> ~h.qr, is_authoritative_answer |-> h.aa,
     is_recursion_desired |-> h.rd, is_recursion_available |-> h.ra,
     response_code |-> get_response_code(h.rcode), questions_count |-> h.qd,
     answers_count |-> h.an, ns_rr_count |-> h.ns, additional_rr_count |-> h.ar]

\* One record of deserialize_resource_records
deserialize_rr(w) ==
    [name |-> read_labels(w.name),
     type |-> CASE w.tcode = 1 -> "A"
                [] w.tcode = 2 -> "NS"
                [] w.tcode = 5 -> "CNAME"
                [] w.tcode = 6 -> "SOA"
                [] w.tcode = 12 -> "PTR"
                [] w.tcode = 16 -> "TXT"
                [] w.tcode = 28 -> "AAAA",
     data |-> IF w.tcode \in {2, 5, 12} THEN read_labels(w.rdata) ELSE w.rdata,
     class |-> to_class(w.ccode),
     ttl |-> w.ttl]

\* DNSQuery::deserialize_resource_records on the records from..to of the buffer
deserialize_resource_records(rrs, from, to) ==
    [i \in 1..(to - from + 1) |-> deserialize_rr(rrs[from + i - 1])]

\* The datagram decodes: DNSQueryResponse::deserialize reads it to its end
\* without a panic (an index past the buffer, an unknown query type, RR type
\* code or class code)
Decodes(d) ==
    LET n == d.hdr.an + d.hdr.ns + d.hdr.ar
    IN  /\ d.qtype \in KnownQTypeCodes
        /\ n <= Len(d.rrs)
        /\ \A i \in 1..n : d.rrs[i].tcode \in KnownTypeCodes
                           /\ d.rrs[i].ccode \in KnownClassCodes

\* DNSQueryResponse::deserialize of a datagram that decodes
deserialize_response(d) ==
    LET header == deserialize_header_section(d.hdr)
        an == header.answers_count
        ns == header.ns_rr_count
        ar == header.additional_rr_count
    IN  [query |-> [header |-> header, qname |-> question_name(d.qlabels),
                    qtype |-> decimal_to_qtype(d.qtype), qclass |-> "IN"],
         answers |-> deserialize_resource_records(d.rrs, 1, an),
         authority |-> deserialize_resource_records(d.rrs, an + 1, an + ns),
         additional |-> deserialize_resource_records(d.rrs, an + ns + 1, an + ns + ar)]

\* Result<T, FetchError>
Ok(v) == [ok |-> TRUE, val |-> v]
Err(kind, v) == [ok |-> FALSE, err |-> kind, val |-> v]

-----------------------------------------------------------------------------
(* The cache driven through its interface (trait Cache), as the tests of    *)
(* cache.rs drive it.                                                       *)

MaxClock == 2
MaxTTL == 1
MaxInserts == 2

ExCom == <<"ex", DOT, "com", DOT>>
ExComNoDot == <<"ex", DOT, "com">>
ExComUpper == <<"EX", DOT, "COM", DOT>>
Missing == <<"non-existing-owner">>

\* The records the driver inserts
DriverRRs ==
    {RR(n, "A", ip, ttl) : n \in {ExCom, ExComNoDot, ExComUpper},
                           ip \in {"ip1", "ip2"}, ttl \in 0..MaxTTL}

\* The keys the driver looks up
DriverOwners == {ExCom, ExComNoDot, Root, RootServer(1), Missing}
DriverQTypes == {"A", "NS", "TXT"}

\* The clock advances by one second
Tick ==
    /\ now < MaxClock
    /\ now' = now + 1
    /\ lastOp' = [op |-> "tick"]
    /\ UNCHANGED <<store, inserts, world, mutex>>
    /\ UNCHANGED reactorVars
    /\ UNCHANGED taskVars

\* cache.insert2(&rr)
CacheInsert(rr) ==
    /\ inserts < MaxInserts
    /\ store' = Insert2(store, now, rr)
    /\ inserts' = inserts + 1
    /\ lastOp' = [op |-> "insert", rr |-> rr]
    /\ UNCHANGED <<now, world, mutex>>
    /\ UNCHANGED reactorVars
    /\ UNCHANGED taskVars

\* cache.get(domain, &qtype)
CacheGet(domain, qtype) ==
    /\ lastOp' = [op |-> "get", domain |-> domain, qtype |-> qtype,
                  res |-> Get(store, now, domain, qtype)]
    /\ UNCHANGED <<now, store, inserts, world, mutex>>
    /\ UNCHANGED reactorVars
    /\ UNCHANGED taskVars

Tasks == {"t1", "t2"}

\* Mutex::lock by task t, which returns once the mutex is free
lock(m, t) == t

\* A guard that outlives its block
unlock_leaked(m, t) == m

\* The MutexGuard of task t goes out of scope
unlock(m, t) == IF m = t THEN "free" ELSE m

\* Task t runs a block that locks the cache when takes holds: the block holds
\* no await, and its guard is dropped at the end of the block
Section(t, takes) ==
    IF takes
    THEN mutex = "free" /\ mutex' = unlock(lock(mutex, t), t)
    ELSE UNCHANGED mutex

\* The writer task: waiting on its channel, waiting for its send_to to end
\* with the datagram and the peer it passed, or ended by a panic
WriterIdle == [st |-> "idle"]

WriterSending(dgram, peer) == [st |-> "sending", dgram |-> dgram, peer |-> peer]

WriterDead(msg) == [st |-> "panic", msg |-> msg]

\* The state outside the cache, before anything happened
Quiet ==
    /\ chan = <<>>
    /\ registry = << >>
    /\ reactor = "running"
    /\ oneshot = [t \in Tasks |-> [n |-> 0, st |-> "none"]]
    /\ sent = {}
    /\ wire = {}
    /\ regOrder = <<>>
    /\ injected = 0
    /\ stack = [t \in Tasks |-> <<>>]
    /\ ret = [t \in Tasks |-> None]
    /\ tstate = [t \in Tasks |-> "idle"]
    /\ client = [t \in Tasks |-> None]
    /\ calls = 0
    /\ respq = <<>>
    /\ outbox = {}
    /\ failures = 0
    /\ inflight = None
    /\ writer = WriterIdle

QuietRest == world = "echo" /\ Quiet

\* Resolver::new: a cache holding the root hints
InitCache ==
    /\ now = 0
    /\ store = NewCache(0)
    /\ lastOp = [op |-> "none"]
    /\ inserts = 0
    /\ mutex = "free"

CacheInit == InitCache /\ QuietRest

CacheNext ==
    \/ Tick
    \/ \E rr \in DriverRRs : CacheInsert(rr)
    \/ \E domain \in DriverOwners, qtype \in DriverQTypes : CacheGet(domain, qtype)

SpecCache == CacheInit /\ [][CacheNext]_vars

-----------------------------------------------------------------------------
(* Claims about the cache *)

\* A cached RR is live as the specification defines it
Live(crr) == now - crr.last_refreshed_at <= crr.rr.ttl

\* The live records stored under (domain, qtype), in stored order
LiveRRs(domain, qtype) ==
    Unwrap(SelectSeq(Bucket(store, domain, qtype), Live))

\* C3: get(owner, qtype) returns exactly the RRs stored under (owner, qtype)
\* that are live at the time of the call, and absent when there is no entry or
\* every entry has expired; an RR whose TTL has elapsed is never returned.
C3_GetReturnsLive ==
    lastOp.op = "get" =>
        LET live == LiveRRs(lastOp.domain, lastOp.qtype)
        IN  /\ (lastOp.res.some <=> Len(live) > 0)
            /\ lastOp.res.some => lastOp.res.val = live
            /\ lastOp.res.some =>
                 \A i \in 1..Len(lastOp.res.val) :
                    \E j \in 1..Len(Bucket(store, lastOp.domain, lastOp.qtype)) :
                        LET crr == Bucket(store, lastOp.domain, lastOp.qtype)[j]
                        IN  /\ crr.rr = lastOp.res.val[i]
                            /\ now < crr.last_refreshed_at + crr.rr.ttl + 1

\* A get of a key that holds an expired and a live record returned the live one
C3_Witness ==
    /\ lastOp.op = "get"
    /\ lastOp.res.some
    /\ Len(lastOp.res.val) < Len(Bucket(store, lastOp.domain, lastOp.qtype))

\* A get of a key whose records have all expired returned absent
C3_WitnessAllExpired ==
    /\ lastOp.op = "get"
    /\ ~lastOp.res.some
    /\ Len(Bucket(store, lastOp.domain, lastOp.qtype)) > 0

\* rr is among the records a get returned
Contains(res, rr) == res.some /\ \E i \in 1..Len(res.val) : RREq(res.val[i], rr)

\* C4: insert(r) followed immediately by get(r.owner, qtype(r)) returns a set
\* that contains r.
C4_InsertThenGet ==
    lastOp.op = "insert" =>
        Contains(Get(store, now, lastOp.rr.name, ToQType(lastOp.rr.type)), lastOp.rr)

\* C5: no RRSet of the cache holds two entries with identical
\* (owner, type, payload).
C5_NoDuplicates ==
    \A o \in DOMAIN store : \A q \in DOMAIN store[o] :
        \A i, j \in 1..Len(store[o][q]) :
            RREq(store[o][q][i].rr, store[o][q][j].rr) => i = j

-----------------------------------------------------------------------------
(* The reactor (src/src/reactor.rs).  A one-shot channel is named by the    *)
(* task that holds its receiving end and the number of channels of that     *)
(* task whose receiver was dropped before.                                  *)

\* The capacity of the request queue
ChanCap == 10

\* ReactorQuery; respond_tx is the sending end of the task's one-shot channel
ReactorQuery(query, peer_addr, t) ==
    [query |-> query, peer_addr |-> peer_addr,
     respond_tx |-> [t |-> t, n |-> oneshot[t].n]]

\* A sender that never sees its receiver dropped
is_closed_never(tx) == FALSE

\* oneshot::Sender::is_closed: the receiving end was dropped
is_closed(tx) == ~(oneshot[tx.t].n = tx.n /\ oneshot[tx.t].st = "pending")

\* A send that never reaches the receiver
Unfulfilled(os, tx, result) == os

\* respond_tx.send(result)
Fulfil(os, tx, result) ==
    [os EXCEPT ![tx.t] = [n |-> tx.n, st |-> "value", val |-> result]]

\* A sender dropped without a send: its receiver, if waiting, gets RecvError
DropSender(os, tx) ==
    IF os[tx.t].n = tx.n /\ os[tx.t].st = "pending"
    THEN [os EXCEPT ![tx.t] = [n |-> tx.n, st |-> "dropped"]]
    ELSE os

\* s without its elements equal to x
Without(seq, x) == SelectSeq(seq, LAMBDA y : y # x)

\* f without the key k
RemoveKey(f, k) == [x \in DOMAIN f \ {k} |-> f[x]]

\* An alternative lookup: a reply with an id that is not registered is taken
\* to answer some registration
LookupSome(reg, order, id) ==
    IF id \in DOMAIN reg THEN Some(id)
    ELSE IF order # <<>> THEN Some(Head(order)) ELSE None

\* An alternative lookup: the oldest registration is taken to be the one
\* the reply answers
LookupOldest(reg, order, id) ==
    IF order # <<>> THEN Some(Head(order)) ELSE None

\* registry.remove(&response.query.header.id): the key removed, if any
Lookup(reg, order, id) ==
    IF id \in DOMAIN reg THEN Some(id) ELSE None

\* The panics of the reactor task: of a decoder (models.rs), of
\* panic!("reactor: oneshot receiver is closed"), of unwrap() on a failed send
PanicDecode == "panic: deserialize"
PanicClosed == "panic: oneshot receiver is closed"
PanicUnwrap == "panic: unwrap on a closed channel"

\* A panic of the reactor task: the task ends, its registry and the receiving
\* end of its queue are dropped, and with them every sender they hold
ReactorPanics(msg) ==
    /\ reactor' = msg
    /\ inflight' = None
    /\ registry' = << >>
    /\ regOrder' = <<>>
    /\ oneshot' = [t \in Tasks |->
                     IF oneshot[t].st = "pending"
                     THEN [n |-> oneshot[t].n, st |-> "dropped"]
                     ELSE oneshot[t]]

\* Reactor::run, the arm of a new submission up to socket.send_to(..).await:
\* the submission leaves the queue and the task waits for the send to end
ReactorTake ==
    /\ reactor = "running"
    /\ inflight = None
    /\ chan # <<>>
    /\ inflight' = Some(Head(chan))
    /\ chan' = Tail(chan)
    /\ UNCHANGED <<registry, regOrder, reactor, oneshot, sent, wire, injected, world>>
    /\ UNCHANGED cacheVars
    /\ UNCHANGED taskVars

\* Reactor::run, the arm of a new submission from the end of send_to on:
\* register the submission when it was sent, answer it with NetworkError when
\* it was not
ReactorSubmit(send_ok) ==
    /\ reactor = "running"
    /\ inflight.some
    /\ LET cmd == inflight.val
           id == cmd.query.header.id
       IN  IF send_ok
           THEN /\ registry' = [k \in DOMAIN registry \cup {id} |->
                                  IF k = id THEN cmd ELSE registry[k]]
                /\ regOrder' = Append(Without(regOrder, id), id)
                /\ oneshot' = IF id \in DOMAIN registry
                              THEN DropSender(oneshot, registry[id].respond_tx)
                              ELSE oneshot
                /\ sent' = sent \cup {[dgram |-> serialize_query(cmd.query),
                                       peer |-> cmd.peer_addr]}
                /\ inflight' = None
                /\ UNCHANGED <<reactor, chan>>
           ELSE IF is_closed(cmd.respond_tx)
                THEN ReactorPanics(PanicUnwrap) /\ chan' = <<>> /\ sent' = sent
                ELSE /\ oneshot' = Fulfil(oneshot, cmd.respond_tx,
                                          Err("NetworkError", None))
                     /\ inflight' = None
                     /\ UNCHANGED <<registry, regOrder, sent, reactor, chan>>
    /\ UNCHANGED <<wire, injected, world>>
    /\ UNCHANGED cacheVars
    /\ UNCHANGED taskVars

\* Reactor::run, the arm of a datagram read from the socket
ReactorRecv(d) ==
    /\ reactor = "running"
    /\ inflight = None
    /\ d \in wire
    /\ wire' = wire \ {d}
    /\ IF ~Decodes(d)
       THEN ReactorPanics(PanicDecode) /\ chan' = <<>>
       ELSE LET response == deserialize_response(d)
                found == Lookup(registry, regOrder, response.query.header.id)
            IN  IF found.some
                THEN LET cmd == registry[found.val]
                     IN  IF is_closed(cmd.respond_tx)
                         THEN ReactorPanics(PanicClosed) /\ chan' = <<>>
                         ELSE /\ registry' = RemoveKey(registry, found.val)
                              /\ regOrder' = Without(regOrder, found.val)
                              /\ oneshot' = Fulfil(oneshot, cmd.respond_tx,
                                    IF response.query.header.response_code # "NoError"
                                    THEN Err("QueryError", response)
                                    ELSE Ok(response))
                              /\ UNCHANGED <<reactor, inflight, chan>>
                ELSE UNCHANGED <<registry, regOrder, oneshot, reactor, inflight, chan>>
    /\ UNCHANGED <<sent, injected, world>>
    /\ UNCHANGED cacheVars
    /\ UNCHANGED taskVars

-----------------------------------------------------------------------------
(* Tasks.  A task runs a stack of calls; the frame of the running call is   *)
(* the head of the stack.  A call that returns leaves its value in ret.     *)

Top(t) == Head(stack[t])

Running(t, fn, pc) ==
    /\ tstate[t] = "running"
    /\ stack[t] # <<>>
    /\ Top(t).fn = fn
    /\ Top(t).pc = pc

\* The running call goes on as frame f
Goto(t, f) == stack' = [stack EXCEPT ![t] = <<f>> \o Tail(@)]

\* The running call goes on as frame f once the call of frame g has returned
Call(t, f, g) == stack' = [stack EXCEPT ![t] = <<g, f>> \o Tail(@)]

\* The running call returns v to its caller
Return(t, v) ==
    /\ stack' = [stack EXCEPT ![t] = Tail(@)]
    /\ ret' = [ret EXCEPT ![t] = v]

\* The panics of a task: of request with no address left, of rewrite_query
PanicRequest == "panic: request: could not send request"
PanicCollision == "panic: id collision"

\* The task panics: it ends and its frames are dropped
Panic(t, msg) ==
    /\ stack' = [stack EXCEPT ![t] = <<>>]
    /\ tstate' = [tstate EXCEPT ![t] = msg]

-----------------------------------------------------------------------------
(* Resolver::request (src/src/resolver.rs)                                  *)

\* The frame of a call request(query, ip_records)
RequestFrame(query, ip_records) ==
    [fn |-> "request", pc |-> "send", query |-> query, ips |-> ip_records, k |-> 1]

\* The records update_cache inserts, in its order
Sections(response) == response.answers \o response.authority \o response.additional

\* Resolver::update_cache
update_cache(st, t, response) == InsertAll(st, t, Sections(response))

\* A variant that caches the records of every response received
CacheAfterAnyReply(st, t, r) ==
    IF r.ok \/ r.err = "QueryError" THEN update_cache(st, t, r.val) ELSE st

\* The cache after request has taken the reply r from its one-shot channel
CacheAfterReply(st, t, r) == IF r.ok THEN update_cache(st, t, r.val) ELSE st

\* request, from the head of its loop to reactor_tx.send(..).await: the next
\* address is taken and the query is queued for the reactor; with no address
\* left the function panics
RequestSend(t) ==
    /\ Running(t, "request", "send")
    /\ LET f == Top(t)
       IN  IF f.k > Len(f.ips) \/ f.ips[f.k].type \notin {"A", "AAAA"}
           THEN /\ Panic(t, PanicRequest)
                /\ UNCHANGED <<chan, oneshot, ret>>
           ELSE IF reactor # "running"
           THEN \* the queue is closed: send fails, the loop goes on
                /\ Goto(t, [f EXCEPT !.k = f.k + 1])
                /\ UNCHANGED <<chan, oneshot, ret, tstate>>
           ELSE /\ Len(chan) < ChanCap
                /\ chan' = Append(chan, ReactorQuery(f.query, f.ips[f.k].data, t))
                /\ oneshot' = [oneshot EXCEPT ![t] = [n |-> @.n, st |-> "pending"]]
                /\ Goto(t, [f EXCEPT !.pc = "await"])
                /\ UNCHANGED <<ret, tstate>>
    /\ UNCHANGED <<registry, regOrder, reactor, inflight, sent, wire, injected, world>>
    /\ UNCHANGED <<client, calls, respq, outbox, writer, failures>>
    /\ UNCHANGED cacheVars

\* request, from rx_oneshot.await on: a response is cached and returned, a
\* QueryError is returned, NetworkError or a dropped sender lead to the next
\* address
RequestAwait(t) ==
    /\ Running(t, "request", "await")
    /\ oneshot[t].st \in {"value", "dropped"}
    /\ oneshot' = [oneshot EXCEPT ![t] = [n |-> @.n, st |-> "none"]]
    /\ LET f == Top(t)
       IN  IF oneshot[t].st = "dropped"
           THEN /\ Goto(t, [f EXCEPT !.k = f.k + 1, !.pc = "send"])
                /\ UNCHANGED <<ret, store>>
           ELSE LET r == oneshot[t].val
                IN  /\ store' = CacheAfterReply(store, now, r)
                    /\ IF r.ok
                       THEN Return(t, Ok(r.val))
                       ELSE IF r.err = "NetworkError"
                       THEN /\ Goto(t, [f EXCEPT !.k = f.k + 1, !.pc = "send"])
                            /\ UNCHANGED ret
                       ELSE Return(t, r)
    /\ UNCHANGED <<chan, registry, regOrder, reactor, inflight, sent, wire, injected, world>>
    /\ Section(t, oneshot[t].st = "value" /\ oneshot[t].val.ok)
    /\ UNCHANGED <<tstate, client, calls, respq, outbox, writer, failures>>
    /\ UNCHANGED <<now, lastOp, inserts>>

-----------------------------------------------------------------------------
(* The network and the authoritative servers *)

MaxInjected == 1
MaxId == 2

\* Transaction ids, a small range of the 16-bit ids
Ids == 1..MaxId

WwwExCom == <<"www", DOT, "ex", DOT, "com", DOT>>
Hostmaster == <<"hostmaster", DOT, "ex", DOT, "com", DOT>>

\* The reply of a server to the datagram s, with the given rcode and sections
Reply(s, rcode, ans, auth, add) ==
    [hdr |-> [id |-> s.dgram.hdr.id, qr |-> TRUE, aa |-> TRUE,
              rd |-> s.dgram.hdr.rd, ra |-> FALSE, rcode |-> rcode, qd |-> 1,
              an |-> Len(ans), ns |-> Len(auth), ar |-> Len(add)],
     qlabels |-> s.dgram.qlabels,
     qtype |-> s.dgram.qtype,
     qclass |-> s.dgram.qclass,
     rrs |-> WireRRs(ans \o auth \o add)]

\* The name a datagram asks about, absolute
AskedName(s) == IF s.dgram.qlabels = <<>> THEN Root ELSE PushDot(Join(s.dgram.qlabels))

\* The addresses of the root servers
RootAddrs == {RootV4(i) : i \in 1..RootCount} \cup {RootV6(i) : i \in 1..RootCount}

\* n is the name zone or a name below it
Within(n, zone) ==
    Len(n) >= Len(zone) /\ SubSeq(n, Len(n) - Len(zone) + 1, Len(n)) = zone

\* The names of the world "zones"
Ex == <<"ex", DOT>>
NEx == <<"n", DOT, "ex", DOT>>
MEx == <<"m", DOT, "ex", DOT>>
RfEx == <<"rf", DOT, "ex", DOT>>
SfEx == <<"sf", DOT, "ex", DOT>>
EmEx == <<"em", DOT, "ex", DOT>>
ZoneX == <<"zx", DOT>>
ZoneY == <<"zy", DOT>>
NX == <<"n", DOT, "zx", DOT>>
NY == <<"n", DOT, "zy", DOT>>
ZoneS == <<"zs", DOT>>
NS1 == <<"n", DOT, "zs", DOT>>
NameA == <<"ca", DOT>>
NameB == <<"cb", DOT>>
NameC == <<"cc", DOT>>
NameD == <<"cd", DOT>>
NameP == <<"pt", DOT>>

Soa(zone) == RR(zone, "SOA", Hostmaster, 300)

\* What a root server of the world "zones" replies.  It refers to the
\* servers of ex. (n.ex. and m.ex., with their addresses), of zx. (n.zy.), of
\* zy. (n.zx.) and of zs. (n.zs.), the last three without an address; its own
\* zone holds ca. CNAME cb., cb. CNAME ca., cc. CNAME ex., for cd. a CNAME
\* record to ex. and one to rf.ex., and pt. PTR ex.
RootReply(s) ==
    LET n == AskedName(s)
        target == IF n = NameA THEN NameB ELSE IF n = NameB THEN NameA ELSE Ex
    IN  IF Within(n, Ex)
        THEN Reply(s, 0, <<>>, <<RR(Ex, "NS", NEx, 300), RR(Ex, "NS", MEx, 300)>>,
                   <<RR(NEx, "A", "ip1", 300), RR(MEx, "A", "ip2", 300)>>)
        ELSE IF Within(n, ZoneX)
        THEN Reply(s, 0, <<>>, <<RR(ZoneX, "NS", NY, 300)>>, <<>>)
        ELSE IF Within(n, ZoneY)
        THEN Reply(s, 0, <<>>, <<RR(ZoneY, "NS", NX, 300)>>, <<>>)
        ELSE IF Within(n, ZoneS)
        THEN Reply(s, 0, <<>>, <<RR(ZoneS, "NS", NS1, 300)>>, <<>>)
        ELSE IF n \in {NameA, NameB, NameC}
        THEN IF s.dgram.qtype \in {QTypeCode("A"), QTypeCode("CNAME")}
             THEN Reply(s, 0, <<RR(n, "CNAME", target, 300)>>, <<>>, <<>>)
             ELSE Reply(s, 0, <<>>, <<Soa(Root)>>, <<>>)
        ELSE IF n = NameD
        THEN IF s.dgram.qtype = QTypeCode("A")
             THEN Reply(s, 0, <<RR(n, "CNAME", Ex, 300), RR(n, "CNAME", RfEx, 300)>>,
                        <<>>, <<>>)
             ELSE Reply(s, 0, <<>>, <<Soa(Root)>>, <<>>)
        ELSE IF n = NameP
        THEN IF s.dgram.qtype = QTypeCode("PTR")
             THEN Reply(s, 0, <<RR(n, "PTR", Ex, 300)>>, <<>>, <<>>)
             ELSE Reply(s, 0, <<>>, <<Soa(Root)>>, <<>>)
        ELSE Reply(s, 3, <<>>, <<Soa(Root)>>, <<>>)

\* What the servers of ex. reply: the address of ex., Refused (rcode 5) for
\* the address of rf.ex., Server Failure (rcode 2) for the address of sf.ex.,
\* and a reply with no record at all for em.ex.
ExReply(s) ==
    LET n == AskedName(s)
    IN  IF n = Ex /\ s.dgram.qtype = QTypeCode("A")
        THEN Reply(s, 0, <<RR(Ex, "A", "ip9", 300)>>, <<>>, <<>>)
        ELSE IF n = Ex /\ s.dgram.qtype = QTypeCode("NS")
        THEN Reply(s, 0, <<RR(Ex, "NS", NEx, 300), RR(Ex, "NS", MEx, 300)>>,
                   <<>>, <<>>)
        ELSE IF n = Ex
        THEN Reply(s, 0, <<>>, <<Soa(Ex)>>, <<>>)
        ELSE IF n = RfEx /\ s.dgram.qtype = QTypeCode("A")
        THEN Reply(s, 5, <<>>, <<>>, <<>>)
        ELSE IF n = SfEx /\ s.dgram.qtype = QTypeCode("A")
        THEN Reply(s, 2, <<>>, <<>>, <<>>)
        ELSE IF n \in {RfEx, SfEx}
        THEN Reply(s, 0, <<>>, <<Soa(Ex)>>, <<>>)
        ELSE IF n = EmEx
        THEN Reply(s, 0, <<>>, <<>>, <<>>)
        ELSE Reply(s, 3, <<>>, <<Soa(Ex)>>, <<>>)

\* The replies a server can give to s.  In the world "echo" every server
\* answers an A question either with an address or with NXDOMAIN.
Answers(w, s) ==
    CASE w = "echo" ->
            {Reply(s, 0, <<RR(AskedName(s), "A", "ip9", 300)>>, <<>>, <<>>),
             Reply(s, 3, <<>>, <<RR(AskedName(s), "SOA", Hostmaster, 300)>>, <<>>)}
      [] w = "zones" ->
            {IF s.peer \in RootAddrs THEN RootReply(s) ELSE ExReply(s)}

\* A server answers a datagram it received
EnvReply(s, d) ==
    /\ s \in sent
    /\ d \in Answers(world, s)
    /\ sent' = sent \ {s}
    /\ wire' = wire \cup {d}
    /\ UNCHANGED <<chan, registry, regOrder, reactor, inflight, oneshot, injected, world>>
    /\ UNCHANGED cacheVars
    /\ UNCHANGED taskVars

\* Datagrams with the id 1 that no server sent: a reply nobody asked for, one
\* with an MX record (type code 15), one with a class code that is neither IN
\* nor CH, and one cut off after its header
Junk ==
    LET q == [dgram |-> serialize_query(build_query(1, ExCom, "A")), peer |-> "x"]
        mx == Reply(q, 0, <<RR(ExCom, "MX", "mail", 300)>>, <<>>, <<>>)
        good == Reply(q, 0, <<RR(ExCom, "A", "ip6", 300)>>, <<>>, <<>>)
    IN  {good, mx, [good EXCEPT !.rrs[1].ccode = 2], [good EXCEPT !.rrs = <<>>]}

\* A datagram arrives at the reactor's socket that answers nothing it sent
EnvInject(d) ==
    /\ injected < MaxInjected
    /\ d \in Junk
    /\ injected' = injected + 1
    /\ wire' = wire \cup {d}
    /\ UNCHANGED <<chan, registry, regOrder, reactor, inflight, oneshot, sent, world>>
    /\ UNCHANGED cacheVars
    /\ UNCHANGED taskVars

-----------------------------------------------------------------------------
(* The reactor and request driven by callers of request *)

NsExCom == <<"ns", DOT, "ex", DOT, "com", DOT>>

\* The addresses the callers pass
CallerIps == <<RR(NsExCom, "A", "ip1", 300), RR(NsExCom, "A", "ip2", 300)>>

\* The name each caller asks about
CallerName(t) == IF t = "t1" THEN ExCom ELSE WwwExCom

\* A task calls request(query, ip_records) with a query made by build_query
CallerCalls(t, id) ==
    /\ tstate[t] = "idle"
    /\ tstate' = [tstate EXCEPT ![t] = "running"]
    /\ stack' = [stack EXCEPT ![t] =
                    <<RequestFrame(build_query(id, CallerName(t), "A"), CallerIps),
                      [fn |-> "caller", pc |-> "wait"]>>]
    /\ UNCHANGED <<ret, client, calls, respq, outbox, writer, failures, world>>
    /\ UNCHANGED cacheVars
    /\ UNCHANGED reactorVars

\* The call has returned
CallerDone(t) ==
    /\ Running(t, "caller", "wait")
    /\ stack' = [stack EXCEPT ![t] = <<>>]
    /\ tstate' = [tstate EXCEPT ![t] = "done"]
    /\ UNCHANGED <<ret, client, calls, respq, outbox, writer, failures, world>>
    /\ UNCHANGED cacheVars
    /\ UNCHANGED reactorVars

\* The future of a task waiting for its reply is dropped: the task ends at
\* its await and the receiving end of its one-shot channel is dropped
DropFuture(t) ==
    /\ Running(t, "request", "await")
    /\ oneshot[t].st = "pending"
    /\ stack' = [stack EXCEPT ![t] = <<>>]
    /\ tstate' = [tstate EXCEPT ![t] = "cancelled"]
    /\ oneshot' = [oneshot EXCEPT ![t] = [n |-> @.n + 1, st |-> "none"]]
    /\ UNCHANGED <<chan, registry, regOrder, reactor, inflight, sent, wire, injected, world>>
    /\ UNCHANGED <<ret, client, calls, respq, outbox, writer, failures>>
    /\ UNCHANGED cacheVars

ReactorInit ==
    /\ InitCache
    /\ QuietRest

ReactorNext ==
    \/ \E t \in Tasks, id \in Ids : CallerCalls(t, id)
    \/ \E t \in Tasks : CallerDone(t)
    \/ \E t \in Tasks : RequestSend(t)
    \/ \E t \in Tasks : RequestAwait(t)
    \/ \E t \in Tasks : DropFuture(t)
    \/ ReactorTake
    \/ \E send_ok \in BOOLEAN : ReactorSubmit(send_ok)
    \/ \E d \in wire : ReactorRecv(d)
    \/ \E s \in sent : \E d \in Answers(world, s) : EnvReply(s, d)
    \/ \E d \in Junk : EnvInject(d)

SpecReactor == ReactorInit /\ [][ReactorNext]_vars

-----------------------------------------------------------------------------
(* Claims about the reactor *)

\* The task that holds the receiving end of tx still waits on it
Waiting(tx) == oneshot[tx.t].n = tx.n /\ oneshot[tx.t].st = "pending"

\* The reactor reads d, which decodes and carries a registered id
Delivery(d) ==
    /\ ReactorRecv(d)
    /\ Decodes(d)
    /\ d.hdr.id \in DOMAIN registry

\* Every response held by a one-shot channel carries the id of the query its
\* receiver submitted
C1_ReplyHasSubmittedId ==
    \A t \in Tasks :
        (oneshot[t].st = "value" /\ oneshot[t].val.val # None) =>
            /\ Running(t, "request", "await")
            /\ oneshot[t].val.val.query.header.id = Top(t).query.header.id

\* A delivery fulfils the completion registered under the reply's id, with the
\* decoded reply, removes that registration and touches no other
C1_DeliveryStep ==
    \A d \in wire :
        (Delivery(d) /\ Waiting(registry[d.hdr.id].respond_tx)) =>
            LET cmd == registry[d.hdr.id]
                w == cmd.respond_tx.t
            IN  /\ cmd.query.header.id = d.hdr.id
                /\ oneshot'[w].st = "value"
                /\ oneshot'[w].val.val = deserialize_response(d)
                /\ \A u \in Tasks \ {w} : oneshot'[u] = oneshot[u]
                /\ registry' = RemoveKey(registry, d.hdr.id)

\* C1: a reply is delivered to the completion of the pending submission whose
\* transaction id equals the reply's id, whatever the order of arrival, without
\* waiting for the replies of other submissions, and its registry entry is
\* removed on delivery.
C1_MatchedById == [](C1_ReplyHasSubmittedId) /\ [][C1_DeliveryStep]_vars

\* A task holds its reply while another submission, registered under another
\* id, still waits for its own
C1_Witness ==
    \E a, b \in Tasks :
        /\ a # b
        /\ oneshot[b].st = "value"
        /\ oneshot[b].val.ok
        /\ oneshot[a].st = "pending"
        /\ \E id \in DOMAIN registry :
              /\ registry[id].respond_tx.t = a
              /\ id # oneshot[b].val.val.query.header.id

\* The reactor reads the reply to a submission whose future was dropped
ReplyToDropped(d) == Delivery(d) /\ ~Waiting(registry[d.hdr.id].respond_tx)

\* C9 as claimed: when the future of an outstanding submission was dropped,
\* the reactor takes the reply for that id and keeps serving the other pending
\* and later submissions.
C9_DropIsHarmless ==
    [][\A d \in wire :
          ReplyToDropped(d) =>
              /\ reactor' = "running"
              /\ registry' = RemoveKey(registry, d.hdr.id)]_vars

\* C9 as amended: dropping the future leaves the submission registered; when
\* its reply arrives the reactor panics on the closed receiver: nothing of the
\* reply is cached, every waiting completion loses its sender, and from then
\* on the reactor delivers nothing.
C9_DropKillsReactor ==
    /\ [][\A t \in Tasks :
            DropFuture(t) => registry' = registry /\ sent' = sent /\ chan' = chan]_vars
    /\ [][\A d \in wire :
            ReplyToDropped(d) =>
                /\ reactor' = PanicClosed
                /\ store' = store
                /\ \A u \in Tasks : oneshot[u].st = "pending" =>
                                       oneshot'[u].st = "dropped"]_vars
    /\ [][reactor # "running" =>
            /\ reactor' = reactor
            /\ \A u \in Tasks : oneshot'[u].st = "value" => oneshot[u].st = "value"]_vars

\* The reactor died of the reply to a dropped future, and a task that was
\* waiting for another reply lost its sender
C9_Witness ==
    /\ reactor = PanicClosed
    /\ \E t \in Tasks : tstate[t] = "cancelled"
    /\ \E u \in Tasks : oneshot[u].st = "dropped"

\* C10: a datagram that cannot be decoded is dropped: the registry and the
\* pending completions are unchanged and the reactor goes on.
C10_MalformedIsDropped ==
    [][\A d \in wire :
          (ReactorRecv(d) /\ ~Decodes(d)) =>
              /\ registry' = registry
              /\ oneshot' = oneshot
              /\ reactor' = "running"]_vars

-----------------------------------------------------------------------------
(* The resolver (src/src/resolver.rs) and the front end (handler.rs,        *)
(* main.rs).  Each action runs a call from where it stands to its next call  *)
(* or return.                                                               *)

MaxNesting == 6
RespCap == 5

PanicZone == "panic: zone does not have a dot"

\* The rest of the name after its first dot, "." not treated apart
parent_zone_plain(zone) ==
    LET first_dot_index == CHOOSE i \in 1..Len(zone) :
                              zone[i] = DOT /\ \A j \in 1..(i - 1) : zone[j] # DOT
    IN  SubSeq(zone, first_dot_index + 1, Len(zone))

\* parent_zone, of a name that holds a dot
parent_zone(zone) ==
    LET first_dot_index == CHOOSE i \in 1..Len(zone) :
                              zone[i] = DOT /\ \A j \in 1..(i - 1) : zone[j] # DOT
    IN  IF first_dot_index = Len(zone)
        THEN Root
        ELSE SubSeq(zone, first_dot_index + 1, Len(zone))

\* The number of records the cache holds.  insert2 only ever appends, so two
\* caches of one run with the same number of records are the same cache.
CacheSize(st) ==
    Cardinality(UNION {UNION {{<<o, q, i>> : i \in 1..Len(st[o][q])} :
                                 q \in DOMAIN st[o]} : o \in DOMAIN st})

\* A response around records whose header keeps the counts of the query
AnswerWithoutCount(query, answers) ==
    [query |-> [query EXCEPT !.header.is_query = FALSE,
                             !.header.is_authoritative_answer = FALSE],
     answers |-> answers, authority |-> <<>>, additional |-> <<>>]

\* The response resolve_from_cache and resolve_from_name_servers build around
\* records they hold
AnswerFromRecords(query, answers) ==
    [query |-> [query EXCEPT !.header.is_query = FALSE,
                             !.header.answers_count = Len(answers),
                             !.header.is_authoritative_answer = FALSE],
     answers |-> answers, authority |-> <<>>, additional |-> <<>>]

\* Resolver::resolve_from_cache
resolve_from_cache(st, t, query) ==
    LET answers == Get(st, t, query.qname, query.qtype)
    IN  IF answers.some THEN Some(Ok(AnswerFromRecords(query, answers.val))) ELSE None

\* DNSQueryResponse::contains_cnames: the CNAME records of the answers
contains_cnames(response) ==
    LET cname_rrs == SelectSeq(response.answers,
                               LAMBDA rr : ToQType(rr.type) = "CNAME")
    IN  IF Len(cname_rrs) > 0 THEN Some(cname_rrs) ELSE None

\* A test that looks at the owners of the records, not at their targets
OwnerIsDomain(records, domain) ==
    \E i \in 1..Len(records) :
        /\ records[i].type = "NS"
        /\ (records[i].name = domain \/ PushDot(records[i].name) = domain)

\* The test of fetch_name_servers for a name server named like the domain
NamesItself(records, domain) ==
    \E i \in 1..Len(records) :
        /\ records[i].type = "NS"
        /\ (records[i].data = domain \/ PushDot(records[i].data) = domain)

AllNS(records) == \A i \in 1..Len(records) : ToQType(records[i].type) = "NS"

\* What fetch_name_servers returns: the records and is_grand_parent_ns
FetchResult(name_servers, inherited) ==
    [name_servers |-> name_servers, is_grand_parent_ns |-> inherited]

\* fetch_name_servers's reading of the response to its NS query
\* A classification that looks at the answers alone
ClassifyAnswersOnly(response, parent_ns_records) ==
    IF Len(response.answers) > 0 /\ AllNS(response.answers)
    THEN FetchResult(response.answers, FALSE)
    ELSE FetchResult(parent_ns_records, TRUE)

Classify(response, parent_ns_records) ==
    IF Len(response.answers) > 0
    THEN IF AllNS(response.answers)
         THEN FetchResult(response.answers, FALSE)
         ELSE FetchResult(parent_ns_records, TRUE)
    ELSE IF AllNS(response.authority)
         THEN FetchResult(response.authority, FALSE)
         ELSE FetchResult(parent_ns_records, TRUE)

\* DNSQuery::deserialize
deserialize_query(d) ==
    [header |-> deserialize_header_section(d.hdr),
     qname |-> question_name(d.qlabels),
     qtype |-> decimal_to_qtype(d.qtype),
     qclass |-> "IN"]

\* A rewrite that leaves the qname as the client wrote it
rewrite_query_verbatim(query, new_id) ==
    [query EXCEPT !.header.id = new_id, !.header.additional_rr_count = 0]

\* Handler::rewrite_query, with the id that random() drew, which is not the
\* client's
rewrite_query(query, new_id) ==
    [query EXCEPT !.header.id = new_id,
                  !.qname = IF ~EndsWithDot(@) THEN PushDot(@) ELSE @,
                  !.header.additional_rr_count = 0]

\* The frames of the calls.  A frame of resolve also notes the size of the
\* cache at the time of the call.
ResolveFrame(query, st) ==
    [fn |-> "resolve", pc |-> "start", query |-> query, cached |-> CacheSize(st),
     result |-> None, cnames |-> <<>>, i |-> 1]

NameServersFrame(query) ==
    [fn |-> "resolve_from_name_servers", pc |-> "after_fetch", query |-> query]

FetchFrame(domain) ==
    [fn |-> "fetch_name_servers", pc |-> "start", domain |-> domain,
     parent_ns_records |-> <<>>]

AuthorityFrame(query, ns_records) ==
    [fn |-> "resolve_from_authority", pc |-> "pass1", query |-> query,
     ns_records |-> ns_records, i |-> 1, name |-> <<>>]

HandleFrame(query) ==
    [fn |-> "handle", pc |-> "after_resolve", query_id |-> query.header.id,
     query_qname |-> query.qname, query_qtype |-> query.qtype,
     query_qclass |-> query.qclass]

\* The running call goes on as the last of frames, beneath the calls it made
Step(t, frames) == stack' = [stack EXCEPT ![t] = frames \o Tail(@)]

\* The value in ret is taken
Taken(t) == ret' = [ret EXCEPT ![t] = None]

\* The number of calls of resolve a task is in
Nesting(t) == Cardinality({i \in 1..Len(stack[t]) : stack[t][i].fn = "resolve"})

\* What a step of the resolver leaves alone
ResolverQuiet ==
    /\ UNCHANGED reactorVars
    /\ UNCHANGED <<now, lastOp, inserts, world>>
    /\ UNCHANGED <<client, calls, respq, outbox, writer, failures>>

\* resolve, from its start to its call of fetch_name_servers (through
\* resolve_from_name_servers) or its return of what the cache holds
ResolveStart(t) ==
    /\ Running(t, "resolve", "start")
    /\ LET f == Top(t)
           hit == resolve_from_cache(store, now, f.query)
       IN  IF hit.some
           THEN Return(t, hit.val)
           ELSE /\ Step(t, <<FetchFrame(f.query.qname), NameServersFrame(f.query),
                             [f EXCEPT !.pc = "after_name_servers"]>>)
                /\ UNCHANGED ret
    /\ UNCHANGED <<store, tstate>>
    /\ Section(t, TRUE)
    /\ ResolverQuiet

\* fetch_name_servers, from its start to its call of resolve for the NS set
\* of the parent zone
FetchStart(t, id) ==
    /\ Running(t, "fetch_name_servers", "start")
    /\ LET f == Top(t)
           name_servers == Get(store, now, f.domain, "NS")
       IN  IF name_servers.some
           THEN /\ Return(t, Ok(FetchResult(name_servers.val, FALSE)))
                /\ UNCHANGED tstate
           ELSE IF \A i \in 1..Len(f.domain) : f.domain[i] # DOT
           THEN /\ Panic(t, PanicZone)
                /\ UNCHANGED ret
           ELSE /\ Nesting(t) < MaxNesting
                /\ Step(t, <<ResolveFrame(build_query(id, parent_zone(f.domain), "NS"),
                                          store),
                             [f EXCEPT !.pc = "after_parent"]>>)
                /\ UNCHANGED <<ret, tstate>>
    /\ UNCHANGED store
    /\ Section(t, TRUE)
    /\ ResolverQuiet

\* fetch_name_servers, from the return of the parent's NS set to its call of
\* resolve_from_authority
FetchAfterParent(t, id) ==
    /\ Running(t, "fetch_name_servers", "after_parent")
    /\ LET f == Top(t)
           r == ret[t]
           parent_ns_records == IF Len(r.val.answers) > 0
                                THEN r.val.answers
                                ELSE r.val.authority
       IN  IF ~r.ok
           THEN Return(t, r)
           ELSE IF NamesItself(parent_ns_records, f.domain)
           THEN Return(t, Err("InfiniteRecursionError", None))
           ELSE /\ Step(t, <<AuthorityFrame(build_query(id, f.domain, "NS"),
                                            parent_ns_records),
                             [f EXCEPT !.pc = "after_authority",
                                       !.parent_ns_records = parent_ns_records]>>)
                /\ Taken(t)
    /\ UNCHANGED <<store, tstate>>
    /\ UNCHANGED mutex
    /\ ResolverQuiet

\* fetch_name_servers, from the return of resolve_from_authority on
FetchAfterAuthority(t) ==
    /\ Running(t, "fetch_name_servers", "after_authority")
    /\ LET f == Top(t)
           r == ret[t]
       IN  IF r.ok
           THEN Return(t, Ok(Classify(r.val, f.parent_ns_records)))
           ELSE Return(t, r)
    /\ UNCHANGED <<store, tstate>>
    /\ UNCHANGED mutex
    /\ ResolverQuiet

\* resolve_from_name_servers after its loop: the answer to an NS question is
\* made of the set; for another question the last call, of
\* resolve_from_authority, takes the place of the function on the stack
NameServersEnd(t, f, name_servers) ==
    IF f.query.qtype = "NS"
    THEN Return(t, Ok(AnswerFromRecords(f.query, name_servers)))
    ELSE Step(t, <<AuthorityFrame(f.query, name_servers)>>) /\ Taken(t)

\* One turn of the for_each of resolve_from_name_servers: the record i gets
\* the name of the question and is inserted in a lock section of its own;
\* the turn of the last record goes on to the end of the function
NameServersTurn(t, f, name_servers, i) ==
    /\ store' = Insert2(store, now, [name_servers[i] EXCEPT !.name = f.query.qname])
    /\ IF i = Len(name_servers)
       THEN NameServersEnd(t, f, name_servers)
       ELSE /\ Goto(t, [fn |-> "resolve_from_name_servers", pc |-> "for_each",
                        query |-> f.query, name_servers |-> name_servers, i |-> i + 1])
            /\ Taken(t)

\* resolve_from_name_servers, from the return of fetch_name_servers to the
\* end of the first lock section of its loop, or to its end when there is no
\* record to insert
NameServersAfterFetch(t) ==
    /\ Running(t, "resolve_from_name_servers", "after_fetch")
    /\ LET f == Top(t)
           r == ret[t]
       IN  IF ~r.ok
           THEN Return(t, r) /\ UNCHANGED store
           ELSE IF r.val.is_grand_parent_ns /\ Len(r.val.name_servers) > 0
           THEN NameServersTurn(t, f, r.val.name_servers, 1)
           ELSE NameServersEnd(t, f, r.val.name_servers) /\ UNCHANGED store
    /\ UNCHANGED tstate
    /\ Section(t, ret[t].ok /\ ret[t].val.is_grand_parent_ns
                    /\ Len(ret[t].val.name_servers) > 0)
    /\ ResolverQuiet

\* resolve_from_name_servers, a later turn of its loop
NameServersForEach(t) ==
    /\ Running(t, "resolve_from_name_servers", "for_each")
    /\ NameServersTurn(t, Top(t), Top(t).name_servers, Top(t).i)
    /\ UNCHANGED tstate
    /\ Section(t, TRUE)
    /\ ResolverQuiet

\* Another error at the end of the loops
no_ip_as_network_error == Err("NetworkError", None)

\* Err(FetchError::NoIPError(..)), the end of resolve_from_authority
no_ip_error == Err("NoIPError", None)

\* resolve_from_authority, one turn of its first loop: the name server i is
\* asked if the cache holds an address of it
AuthorityPass1(t) ==
    /\ Running(t, "resolve_from_authority", "pass1")
    /\ LET f == Top(t)
           next == [f EXCEPT !.i = f.i + 1]
           rec == f.ns_records[f.i]
           A_record == Get(store, now, rec.data, "A")
           AAAA_record == Get(store, now, rec.data, "AAAA")
           asks(ips) == /\ Step(t, <<RequestFrame(f.query, ips),
                                     [f EXCEPT !.pc = "after_request1"]>>)
       IN  IF f.i > Len(f.ns_records) THEN Step(t, <<[f EXCEPT !.pc = "pass2", !.i = 1]>>)
           ELSE IF rec.type # "NS" THEN Step(t, <<next>>)
           ELSE IF A_record.some THEN asks(A_record.val)
           ELSE IF AAAA_record.some THEN asks(AAAA_record.val)
           ELSE Step(t, <<next>>)
    /\ UNCHANGED <<ret, store, tstate>>
    /\ Section(t, Top(t).i <= Len(Top(t).ns_records)
                    /\ Top(t).ns_records[Top(t).i].type = "NS")
    /\ ResolverQuiet

\* resolve_from_authority, from the return of request on, in either loop
AuthorityAfterRequest(t) ==
    /\ \/ Running(t, "resolve_from_authority", "after_request1")
       \/ Running(t, "resolve_from_authority", "after_request2")
    /\ LET f == Top(t)
           r == ret[t]
       IN  IF ~r.ok /\ r.err = "NetworkError"
           THEN /\ Step(t, <<[f EXCEPT !.pc = IF f.pc = "after_request1"
                                              THEN "pass1" ELSE "pass2",
                                       !.i = f.i + 1]>>)
                /\ Taken(t)
           ELSE Return(t, r)
    /\ UNCHANGED <<store, tstate>>
    /\ UNCHANGED mutex
    /\ ResolverQuiet

\* resolve_from_authority, one turn of its second loop up to the call of
\* resolve for the address of the name server i
AuthorityPass2(t, id) ==
    /\ Running(t, "resolve_from_authority", "pass2")
    /\ LET f == Top(t)
           rec == f.ns_records[f.i]
           dotted_name_server == IF ~EndsWithDot(rec.data)
                                 THEN PushDot(rec.data) ELSE rec.data
       IN  IF f.i > Len(f.ns_records)
           THEN Return(t, no_ip_error)
           ELSE IF rec.type # "NS"
           THEN Step(t, <<[f EXCEPT !.i = f.i + 1]>>) /\ UNCHANGED ret
           ELSE /\ Nesting(t) < MaxNesting
                /\ Step(t, <<ResolveFrame(build_query(id, dotted_name_server, "A"),
                                          store),
                             [f EXCEPT !.pc = "after_resolve",
                                       !.name = dotted_name_server]>>)
                /\ UNCHANGED ret
    /\ UNCHANGED <<store, tstate>>
    /\ UNCHANGED mutex
    /\ ResolverQuiet

\* resolve_from_authority, from the return of that resolve to the call of
\* request or the next turn
AuthorityAfterResolve(t) ==
    /\ Running(t, "resolve_from_authority", "after_resolve")
    /\ LET f == Top(t)
           r == ret[t]
           A_record == Get(store, now, f.name, "A")
       IN  IF r.ok /\ A_record.some
           THEN /\ Step(t, <<RequestFrame(f.query, A_record.val),
                             [f EXCEPT !.pc = "after_request2"]>>)
           ELSE Step(t, <<[f EXCEPT !.pc = "pass2", !.i = f.i + 1]>>)
    /\ Taken(t)
    /\ UNCHANGED <<store, tstate>>
    /\ Section(t, ret[t].ok)
    /\ ResolverQuiet

\* resolve, from the return of resolve_from_name_servers on
ResolveAfterNameServers(t) ==
    /\ Running(t, "resolve", "after_name_servers")
    /\ LET f == Top(t)
           r == ret[t]
       IN  IF ~r.ok \/ ~contains_cnames(r.val).some
           THEN Return(t, r)
           ELSE /\ Step(t, <<[f EXCEPT !.pc = "cnames", !.result = r.val,
                                       !.cnames = <<>>, !.i = 1]>>)
                /\ Taken(t)
    /\ UNCHANGED <<store, tstate>>
    /\ UNCHANGED mutex
    /\ ResolverQuiet

\* The answers without the count of the header
append_cnames_uncounted(result, cnames) ==
    [result EXCEPT !.answers = @ \o cnames]

\* The end of resolve's CNAME chase: the answers of the targets are counted
\* in the header and appended to the answers of the result
append_cnames(result, cnames) ==
    [result EXCEPT !.query.header.answers_count = @ + Len(cnames),
                   !.answers = @ \o cnames]

\* resolve, one turn of its loop over the CNAME records up to the call of
\* resolve for the target, and its return after the last turn
ResolveCname(t, id) ==
    /\ Running(t, "resolve", "cnames")
    /\ LET f == Top(t)
           cname_records == contains_cnames(f.result).val
           target == cname_records[f.i].data
           cname == IF ~EndsWithDot(target) THEN PushDot(target) ELSE target
       IN  IF f.i > Len(cname_records)
           THEN Return(t, Ok(append_cnames(f.result, f.cnames)))
           ELSE /\ Nesting(t) < MaxNesting
                /\ Step(t, <<ResolveFrame(build_query(id, cname, "A"), store),
                             [f EXCEPT !.pc = "after_cname"]>>)
                /\ UNCHANGED ret
    /\ UNCHANGED <<store, tstate>>
    /\ UNCHANGED mutex
    /\ ResolverQuiet

\* A chase that gives up what it has when a target fails
chased_or_dropped(cnames, r) == IF r.ok THEN cnames \o r.val.answers ELSE <<>>

\* The arms of resolve on the result of the resolve for a CNAME target: the
\* answers are kept, an error is logged
chased(cnames, r) == IF r.ok THEN cnames \o r.val.answers ELSE cnames

\* resolve, from the return of the resolve for a CNAME target on
ResolveAfterCname(t) ==
    /\ Running(t, "resolve", "after_cname")
    /\ LET f == Top(t)
           r == ret[t]
       IN  Step(t, <<[f EXCEPT !.pc = "cnames", !.i = f.i + 1,
                               !.cnames = chased(@, r)]>>)
    /\ Taken(t)
    /\ UNCHANGED <<store, tstate>>
    /\ UNCHANGED mutex
    /\ ResolverQuiet

\* The id of the datagram of each client
ClientId(t) == IF t = "t1" THEN 1 ELSE 2

\* The datagram of a client that asks for the address of name
ClientDatagram(t, name) ==
    Some([dgram |-> serialize_query(Query(Header(ClientId(t), TRUE, FALSE, TRUE,
                                                 FALSE, "NoError", 0, 0, 0),
                                          name, "A")),
          peer |-> t])

\* The same question in the class CH (class code 3)
ChaosDatagram(t, name) ==
    Some([ClientDatagram(t, name).val EXCEPT !.dgram.qclass = 3])

\* The datagram of a client that asks for the CNAME record of name
CnameDatagram(t, name) ==
    Some([dgram |-> serialize_query(Query(Header(ClientId(t), TRUE, FALSE, TRUE,
                                                 FALSE, "NoError", 0, 0, 0),
                                          name, "CNAME")),
          peer |-> t])

\* The datagram of a client that asks for the PTR record of name
PtrDatagram(t, name) ==
    Some([dgram |-> serialize_query(Query(Header(ClientId(t), TRUE, FALSE, TRUE,
                                                 FALSE, "NoError", 0, 0, 0),
                                          name, "PTR")),
          peer |-> t])

\* The same question in a datagram whose header announces one authority
\* record that the datagram does not hold
OddDatagram(t, name) ==
    Some([ClientDatagram(t, name).val EXCEPT !.dgram.hdr.ns = 1])

\* What the clients send: one client asks for a name of the world "zones",
\* written without the final dot, or both ask for ex, or one asks for ex in
\* the class CH, or one asks for the CNAME record of cc or the PTR record of
\* pt, or one asks for a root server with an odd header
Workloads ==
    {[t \in Tasks |-> IF t = "t1" THEN ClientDatagram(t, name) ELSE None] :
        name \in {<<"zx">>, <<"zs">>, <<"ca">>, <<"cc">>, <<"rf", DOT, "ex">>,
                  <<"n", DOT, "zs">>, <<"em", DOT, "ex">>, <<"cd">>,
                  <<"sf", DOT, "ex">>}}
    \cup {[t \in Tasks |-> ClientDatagram(t, <<"ex">>)]}
    \cup {[t \in Tasks |-> IF t = "t1" THEN ChaosDatagram(t, <<"ex">>) ELSE None]}
    \cup {[t \in Tasks |-> IF t = "t1" THEN CnameDatagram(t, <<"cc">>) ELSE None]}
    \cup {[t \in Tasks |-> IF t = "t1" THEN PtrDatagram(t, <<"pt">>) ELSE None]}
    \cup {[t \in Tasks |-> IF t = "t1"
                            THEN OddDatagram(t, <<"a", DOT, "root-servers", DOT, "net">>)
                            ELSE None]}

\* main's read loop takes a datagram and spawns process, which runs
\* Handler::handle up to its call of resolve
ServerRecv(t, new_id) ==
    /\ tstate[t] = "idle"
    /\ client[t].some
    /\ LET buf == client[t].val.dgram
           query == deserialize_query(buf)
       IN  /\ UNCHANGED client
           /\ IF new_id = query.header.id
              THEN Panic(t, PanicCollision)
              ELSE /\ tstate' = [tstate EXCEPT ![t] = "running"]
                   /\ stack' = [stack EXCEPT ![t] =
                                   <<ResolveFrame(rewrite_query(query, new_id), store),
                                     HandleFrame(query)>>]
    /\ calls' = calls + 1
    /\ UNCHANGED <<ret, respq, outbox, writer, failures, store, now, lastOp, inserts, world,
                   mutex>>
    /\ UNCHANGED reactorVars

\* A handler that passes on what resolve returned
handle_result_as_is(f, r) == r

\* The match of Handler::handle on the result r of resolve, f the frame of
\* handle with the id and the question of the client
handle_result(f, r) ==
    IF r.ok
    THEN Ok([r.val EXCEPT !.query.header.id = f.query_id,
                          !.query.header.is_recursion_available = TRUE])
    ELSE IF r.err = "QueryError"
    THEN Err("QueryError",
             [r.val EXCEPT !.query.header.id = f.query_id,
                           !.query.qname = f.query_qname,
                           !.query.qtype = f.query_qtype,
                           !.query.qclass = f.query_qclass])
    ELSE r

\* unwrap() on the error of socket_tx.send_to
PanicSendTo == "panic: unwrap on a failed send_to"

\* unwrap() on the error of response_tx.send: the writer's end is dropped
PanicResponseSend == "panic: unwrap on a closed response channel"

\* Handler::handle from the return of resolve on, and process which sends
\* the result to the writer; with the writer gone the send fails and its
\* unwrap() panics
HandleReturn(t) ==
    /\ Running(t, "handle", "after_resolve")
    /\ IF writer.st = "panic"
       THEN /\ Panic(t, PanicResponseSend)
            /\ UNCHANGED respq
       ELSE /\ Len(respq) < RespCap
            /\ respq' = Append(respq, [result |-> handle_result(Top(t), ret[t]),
                                       peer |-> client[t].val.peer])
            /\ stack' = [stack EXCEPT ![t] = <<>>]
            /\ tstate' = [tstate EXCEPT ![t] = "done"]
    /\ Taken(t)
    /\ UNCHANGED <<client, calls, outbox, writer, failures, store, now, lastOp, inserts,
                   world, mutex>>
    /\ UNCHANGED reactorVars

\* main's write loop, from response_rx.recv() to socket_tx.send_to(..).await
\* or, for an error that is not answered, to the end of the turn; a response
\* that does not serialize ends the task and closes its channel
WriterRecv ==
    /\ writer.st = "idle"
    /\ respq # <<>>
    /\ LET response_result == Head(respq).result
           peer == Head(respq).peer
       IN  IF response_result.ok \/ response_result.err = "QueryError"
           THEN /\ IF Serializes(response_result.val)
                   THEN /\ writer' = WriterSending(
                                         serialize_response(response_result.val), peer)
                        /\ respq' = Tail(respq)
                   ELSE /\ writer' = WriterDead(PanicSerialize)
                        /\ respq' = <<>>
                /\ UNCHANGED failures
           ELSE /\ failures' = failures + 1
                /\ respq' = Tail(respq)
                /\ UNCHANGED writer
    /\ UNCHANGED <<stack, ret, tstate, client, calls, outbox, store, now, lastOp, inserts,
                   world, mutex>>
    /\ UNCHANGED reactorVars

\* main's write loop, from the end of send_to to the end of the turn: the
\* datagram was written, or the send failed and unwrap() ends the task
WriterSent(send_ok) ==
    /\ writer.st = "sending"
    /\ IF send_ok
       THEN /\ outbox' = outbox \cup {[dgram |-> writer.dgram, peer |-> writer.peer]}
            /\ writer' = WriterIdle
            /\ UNCHANGED respq
       ELSE /\ writer' = WriterDead(PanicSendTo)
            /\ respq' = <<>>
            /\ UNCHANGED outbox
    /\ UNCHANGED <<stack, ret, tstate, client, calls, failures, store, now, lastOp,
                   inserts, world, mutex>>
    /\ UNCHANGED reactorVars

ResolverInit ==
    /\ InitCache
    /\ world = "zones"
    /\ chan = <<>>
    /\ registry = << >>
    /\ reactor = "running"
    /\ oneshot = [t \in Tasks |-> [n |-> 0, st |-> "none"]]
    /\ sent = {}
    /\ wire = {}
    /\ regOrder = <<>>
    /\ injected = 0
    /\ stack = [t \in Tasks |-> <<>>]
    /\ ret = [t \in Tasks |-> None]
    /\ tstate = [t \in Tasks |-> "idle"]
    /\ client \in Workloads
    /\ calls = 0
    /\ respq = <<>>
    /\ outbox = {}
    /\ failures = 0
    /\ inflight = None
    /\ writer = WriterIdle

ResolverNext ==
    \/ \E t \in Tasks, id \in Ids : ServerRecv(t, id)
    \/ \E t \in Tasks : ResolveStart(t)
    \/ \E t \in Tasks, id \in Ids : FetchStart(t, id)
    \/ \E t \in Tasks, id \in Ids : FetchAfterParent(t, id)
    \/ \E t \in Tasks : FetchAfterAuthority(t)
    \/ \E t \in Tasks : NameServersAfterFetch(t)
    \/ \E t \in Tasks : NameServersForEach(t)
    \/ \E t \in Tasks : AuthorityPass1(t)
    \/ \E t \in Tasks : AuthorityAfterRequest(t)
    \/ \E t \in Tasks, id \in Ids : AuthorityPass2(t, id)
    \/ \E t \in Tasks : AuthorityAfterResolve(t)
    \/ \E t \in Tasks : ResolveAfterNameServers(t)
    \/ \E t \in Tasks, id \in Ids : ResolveCname(t, id)
    \/ \E t \in Tasks : ResolveAfterCname(t)
    \/ \E t \in Tasks : RequestSend(t)
    \/ \E t \in Tasks : RequestAwait(t)
    \/ \E t \in Tasks : HandleReturn(t)
    \/ WriterRecv
    \/ \E send_ok \in BOOLEAN : WriterSent(send_ok)
    \/ ReactorTake
    \/ \E send_ok \in BOOLEAN : ReactorSubmit(send_ok)
    \/ \E d \in wire : ReactorRecv(d)
    \/ \E s \in sent : \E d \in Answers(world, s) : EnvReply(s, d)

SpecResolver == ResolverInit /\ [][ResolverNext]_vars

-----------------------------------------------------------------------------
(* Claims about request, the resolver and the ids *)

\* The response a task holds in its one-shot channel, with its rcode
Holds(t, ok) == oneshot[t].st = "value" /\ oneshot[t].val.ok = ok

\* Ok carries NoError and QueryError another rcode
C7_OkIsNoError ==
    \A t \in Tasks :
        /\ Holds(t, TRUE) => oneshot[t].val.val.query.header.response_code = "NoError"
        /\ (Holds(t, FALSE) /\ oneshot[t].val.err = "QueryError") =>
               oneshot[t].val.val.query.header.response_code # "NoError"

\* request caches all the records of an Ok response and nothing else
C7_AwaitStep ==
    \A t \in Tasks :
        RequestAwait(t) =>
            IF Holds(t, TRUE)
            THEN LET r == oneshot[t].val.val
                 IN  store' = InsertAll(store, now,
                                        r.answers \o r.authority \o r.additional)
            ELSE store' = store

\* The cache changes only where request takes an Ok response
C7_OnlyAwaitWrites ==
    store' # store => \E t \in Tasks : RequestAwait(t) /\ Holds(t, TRUE)

\* C7: the cache is modified from a reply only when the reactor delivered
\* Ok(response), that is rcode NoError, and then every RR of its answer,
\* authority and additional sections is passed to insert; no RR of a response
\* with another rcode is inserted.
C7_CacheOnlyOnNoError ==
    /\ [](C7_OkIsNoError)
    /\ [][C7_AwaitStep]_vars
    /\ [][C7_OnlyAwaitWrites]_vars

\* request returned a QueryError whose response holds records, none of which
\* is in the cache, and the records of an Ok response are in the cache
C7_Witness ==
    /\ \E t \in Tasks :
          /\ ret[t] # None
          /\ ~ret[t].ok
          /\ ret[t].err = "QueryError"
          /\ Len(ret[t].val.authority) > 0
          /\ \A i \in 1..Len(ret[t].val.authority) :
                LET rr == ret[t].val.authority[i]
                IN  Bucket(store, InsertKey(rr), ToQType(rr.type)) = <<>>
    /\ \E t \in Tasks :
          /\ ret[t] # None
          /\ ret[t].ok
          /\ \A i \in 1..Len(ret[t].val.answers) :
                LET rr == ret[t].val.answers[i]
                IN  Bucket(store, InsertKey(rr), ToQType(rr.type)) # <<>>

\* C2: no two in-flight registrations carry the same transaction id: every
\* query submitted to the reactor has an id that differs from every id
\* registered and from the id of every other submitted query.
C2_UniqueIds ==
    LET held == IF inflight.some THEN <<inflight.val>> ELSE <<>>
        submitted == held \o chan
    IN  /\ \A i \in 1..Len(submitted) :
              submitted[i].query.header.id \notin DOMAIN registry
        /\ \A i, j \in 1..Len(submitted) :
              i # j => submitted[i].query.header.id # submitted[j].query.header.id

\* The question of a frame of resolve
Question(f) == <<f.query.qname, f.query.qtype>>

\* C6: every call of resolve returns: the recursion is bounded.  A call of
\* resolve nested in a call of resolve for the same question, with the cache
\* as it was at the outer call, takes the steps of the outer one again and so
\* without end; the property says that no call is nested in this way.
C6_RecursionBounded ==
    \A t \in Tasks : \A i, j \in 1..Len(stack[t]) :
        (i < j /\ stack[t][i].fn = "resolve" /\ stack[t][j].fn = "resolve"
               /\ Question(stack[t][i]) = Question(stack[t][j])) =>
            stack[t][i].cached # stack[t][j].cached

\* request is out of addresses, called by resolve_from_authority for a name
\* server that is not the last of its list
OutOfAddresses(t) ==
    /\ Running(t, "request", "send")
    /\ Top(t).k > Len(Top(t).ips)
    /\ stack[t][2].fn = "resolve_from_authority"
    /\ stack[t][2].i < Len(stack[t][2].ns_records)

\* C8: NetworkError is recovered locally: when the addresses of one name
\* server all failed, request returns NetworkError to resolve_from_authority,
\* which moves to the next name server.
C8_NextServerTried ==
    [][\A t \in Tasks :
          (OutOfAddresses(t) /\ RequestSend(t)) =>
              /\ tstate'[t] = "running"
              /\ stack'[t] = Tail(stack[t])
              /\ ret'[t] = Err("NetworkError", None)]_vars

-----------------------------------------------------------------------------
(* Claims about the failure paths *)

\* A failed send_to fulfils the waiting completion of the submission with
\* NetworkError and leaves registry and socket as they were
C11_FailedSendStep ==
    (ReactorSubmit(FALSE) /\ Waiting(inflight.val.respond_tx)) =>
        LET cmd == inflight.val
            w == cmd.respond_tx.t
        IN  /\ oneshot'[w] = [n |-> cmd.respond_tx.n, st |-> "value",
                              val |-> Err("NetworkError", None)]
            /\ registry' = registry
            /\ sent' = sent
            /\ reactor' = "running"

\* A registration is made or replaced only by a submission whose datagram
\* was sent
C11_RegisteredStep ==
    \A id \in DOMAIN registry' :
        (id \notin DOMAIN registry \/ registry'[id] # registry[id]) =>
            /\ ReactorSubmit(TRUE)
            /\ registry'[id] = inflight.val
            /\ inflight.val.query.header.id = id
            /\ [dgram |-> serialize_query(inflight.val.query),
                peer |-> inflight.val.peer_addr] \in sent'

\* C11: when send_to fails the reactor fulfils the completion at once with
\* NetworkError and does not register the id; an id enters the registry only
\* when its datagram was sent.
C11_FailedSendNotRegistered ==
    [][C11_FailedSendStep]_vars /\ [][C11_RegisteredStep]_vars

\* A task holds NetworkError for a query that is neither registered nor sent
C11_Witness ==
    \E t \in Tasks :
        /\ Running(t, "request", "await")
        /\ Holds(t, FALSE)
        /\ oneshot[t].val.err = "NetworkError"
        /\ Top(t).query.header.id \notin DOMAIN registry
        /\ \A s \in sent : s.dgram.hdr.id # Top(t).query.header.id

\* The client behind task t asked for name, written as in its datagram
Asks(t, name) ==
    client[t].some /\ deserialize_query(client[t].val.dgram).qname = name

\* What Handler::handle passed to the writer for the client of task t
Passed(t) == {respq[i].result : i \in {j \in 1..Len(respq) : respq[j].peer = t}}

\* C12: for the zone zs. whose only name server n.zs. lies inside the zone and
\* has no address in the cache, resolve of a name of the zone ends with
\* InfiniteRecursionError and with no other error kind.
C12_SelfNsIsInfiniteRecursion ==
    \A t \in Tasks :
        Asks(t, <<"zs">>) =>
            \A r \in Passed(t) : ~r.ok /\ r.err = "InfiniteRecursionError"

\* The transaction id of the datagram the client behind task t sent
IdOfClient(t) == client[t].val.dgram.hdr.id

\* C13: every response passed to the writer or written to a client, on Ok and
\* on QueryError, carries the transaction id of that client's datagram.
C13_ResponseHasClientId ==
    /\ \A o \in outbox : o.dgram.hdr.id = IdOfClient(o.peer)
    /\ writer.st = "sending" => writer.dgram.hdr.id = IdOfClient(writer.peer)
    /\ \A i \in 1..Len(respq) :
          (respq[i].result.ok \/ respq[i].result.err = "QueryError") =>
              respq[i].result.val.query.header.id = IdOfClient(respq[i].peer)

\* Two clients were served concurrently and each got its own id back
C13_Witness ==
    /\ \A t \in Tasks : \E o \in outbox : o.peer = t /\ o.dgram.hdr.id = IdOfClient(t)
    /\ IdOfClient("t1") # IdOfClient("t2")

\* The question section of a datagram
QuestionOf(d) == [qlabels |-> d.qlabels, qtype |-> d.qtype, qclass |-> d.qclass]

\* C14: the response sent to a client, on Ok as well as on QueryError, has
\* the qname, qtype and qclass of the client's datagram in its question
\* section, while the resolver worked on the name with the final dot.
C14_QuestionRestored ==
    /\ \A o \in outbox : QuestionOf(o.dgram) = QuestionOf(client[o.peer].val.dgram)
    /\ \A t \in Tasks :
          Len(stack[t]) >= 2 =>
              EndsWithDot(stack[t][Len(stack[t]) - 1].query.qname)

\* The response is one to the question of the client of task t
AnswersClient(t, response) ==
    /\ write_labels(response.query.qname) = client[t].val.dgram.qlabels
    /\ QTypeCode(response.query.qtype) = client[t].val.dgram.qtype

IsQueryError(r) == r # None /\ ~r.ok /\ r.err = "QueryError"

\* The QueryError for the client's own question that task t holds, in the
\* one-shot channel of request or on its way up to the handler
Refusal(t) ==
    IF ~client[t].some \/ tstate[t] # "running" \/ Nesting(t) > 1 THEN None
    ELSE IF /\ Running(t, "request", "await")
            /\ oneshot[t].st = "value"
            /\ IsQueryError(oneshot[t].val)
            /\ AnswersClient(t, oneshot[t].val.val)
    THEN Some(oneshot[t].val)
    ELSE IF IsQueryError(ret[t]) /\ AnswersClient(t, ret[t].val)
    THEN Some(ret[t])
    ELSE None

\* The commands of task t in the channel of the reactor
Submitted(ch, t) == {i \in 1..Len(ch) : ch[i].respond_tx.t = t}

\* The reactor delivers a reply with another rcode than NoError as QueryError,
\* and the response delivered has the rcode of the datagram
C15_DeliveryStep ==
    \A d \in wire :
        (Delivery(d) /\ d.hdr.rcode # 0 /\ Waiting(registry[d.hdr.id].respond_tx)) =>
            LET tx == registry[d.hdr.id].respond_tx
            IN  /\ oneshot'[tx.t] = [n |-> tx.n, st |-> "value",
                                     val |-> Err("QueryError", deserialize_response(d))]
                /\ RcodeNumber(oneshot'[tx.t].val.val.query.header.response_code)
                     = d.hdr.rcode

\* A task that holds a QueryError for its client's question asks no further
\* server and hands the same response up until the handler queues it
C15_PropagateStep ==
    \A t \in Tasks :
        Refusal(t).some =>
            /\ Cardinality(Submitted(chan', t)) <= Cardinality(Submitted(chan, t))
            /\ \/ Refusal(t)' = Some(Refusal(t).val)
               \/ /\ HandleReturn(t)
                  /\ LET r == respq'[Len(respq')]
                         e == Refusal(t).val.val
                     IN  /\ r.peer = client[t].val.peer
                         /\ IsQueryError(r.result)
                         /\ r.result.val.query.header.response_code
                              = e.query.header.response_code
                         /\ r.result.val.answers = e.answers
                         /\ r.result.val.authority = e.authority
                         /\ r.result.val.additional = e.additional

\* The writer passes a queued QueryError to send_to, for its client and with
\* the rcode it has, and a datagram whose send ended well has gone out
C15_WriterStep ==
    /\ (WriterRecv /\ IsQueryError(Head(respq).result)) =>
          /\ writer'.st = "sending"
          /\ writer'.peer = Head(respq).peer
          /\ writer'.dgram.hdr.rcode
               = RcodeNumber(Head(respq).result.val.query.header.response_code)
          /\ failures' = failures
    /\ WriterSent(TRUE) => [dgram |-> writer.dgram, peer |-> writer.peer] \in outbox'

\* The rcode the servers of ex. give to the question of the client of task t
AuthoritativeRcode(t) == ExReply(client[t].val).hdr.rcode

\* A client whose question the servers of ex. answer with an rcode other than
\* NoError is sent that rcode
C15_ClientSeesRcode ==
    \A o \in outbox :
        (/\ Within(AskedName(client[o.peer].val), Ex)
         /\ AuthoritativeRcode(o.peer) # 0) =>
            o.dgram.hdr.rcode = AuthoritativeRcode(o.peer)

\* C15: a reply with an rcode other than NoError to the client's question is
\* delivered as QueryError, handed up unchanged with no further server asked,
\* and sent to the client with the rcode the server gave.
C15_QueryErrorSurfaces ==
    /\ [][C15_DeliveryStep]_vars
    /\ [][C15_PropagateStep]_vars
    /\ [][C15_WriterStep]_vars
    /\ []C15_ClientSeesRcode

\* The errors the writer answers with silence
SilentErrors == {"NetworkError", "InfiniteRecursionError", "NoIPError"}

IsSilent(r) == ~r.ok /\ r.err \in SilentErrors

\* The resolution for the client of task t failed: its result was a silent
\* error that the writer has taken, or request ran out of addresses to send to
Failed(t) ==
    /\ client[t].some
    /\ \/ tstate[t] = PanicRequest
       \/ /\ tstate[t] = "done"
          /\ writer.st = "idle"
          /\ \A o \in outbox : o.peer # t
          /\ \A i \in 1..Len(respq) : respq[i].peer # t

\* C16: a client query whose resolution failed with NetworkError,
\* InfiniteRecursionError or NoIPError gets no datagram and is counted once
\* by the resolution-failure counter.
C16_FailureCountedOnce ==
    /\ \A t \in Tasks : Failed(t) => \A o \in outbox : o.peer # t
    /\ respq = <<>> => failures = Cardinality({t \in Tasks : Failed(t)})

-----------------------------------------------------------------------------
(* Further claims about the cache *)

\* The RRSet insert2 files rr under holds a record equal to rr
Stored(st, rr) ==
    \E i \in 1..Len(Bucket(st, InsertKey(rr), ToQType(rr.type))) :
        RREq(Bucket(st, InsertKey(rr), ToQType(rr.type))[i].rr, rr)

\* C17: insert appends rr to the RRSet at (owner, type) unless an entry with
\* equal (owner, type, payload) exists, so after an insert the RRSet holds
\* rr whatever other payloads it held before.
C17_DistinctPayloadsStored ==
    [][\A rr \in DriverRRs : CacheInsert(rr) => Stored(store', rr)]_vars

\* C18: every owner key of the store is lowercase and ends with ".", after
\* the preload of the root hints and after any inserts.
C18_OwnersNormalized ==
    \A o \in DOMAIN store : to_lowercase(o) = o /\ EndsWithDot(o)

\* The entries equal to rr in the RRSet insert2 files rr under
Entries(st, rr) ==
    LET crrs == Bucket(st, InsertKey(rr), ToQType(rr.type))
    IN  {i \in 1..Len(crrs) : RREq(crrs[i].rr, rr)}

\* C19: when an RR that the cache already holds is inserted again, the cache
\* ends with exactly one entry for it and that entry's last_refreshed_at is
\* the time of the later insert.
C19_LastWriterWins ==
    [][\A rr \in DriverRRs :
          (CacheInsert(rr) /\ Stored(store, rr)) =>
              LET crrs == Bucket(store', InsertKey(rr), ToQType(rr.type))
              IN  /\ Cardinality(Entries(store', rr)) = 1
                  /\ \A i \in Entries(store', rr) : crrs[i].last_refreshed_at = now]_vars

-----------------------------------------------------------------------------
(* Claims about the cache mutex *)

\* Task t is at a suspension point: the send to the reactor's channel, the
\* await of the one-shot channel, or the send to the writer's channel
Suspended(t) ==
    \/ Running(t, "request", "send")
    \/ Running(t, "request", "await")
    \/ Running(t, "handle", "after_resolve")

\* C20: no task holds the cache mutex at a suspension point: every block
\* that locks the cache has released it when the task goes on, so while a
\* resolution waits the mutex is free for the cache access of another.
C20_NoLockAcrossSuspension ==
    /\ \A t \in Tasks : Suspended(t) => mutex # t
    /\ (\E t \in Tasks : Suspended(t)) => mutex = "free"
    /\ \A t \in Tasks : tstate[t] = "running" => mutex # t

\* One resolution waits for its reply while another, which has just looked
\* up the addresses of a name server in the cache, is about to submit
C20_Witness ==
    \E t, u \in Tasks :
        /\ t # u
        /\ Running(t, "request", "await")
        /\ oneshot[t].st = "pending"
        /\ Running(u, "request", "send")
        /\ Nesting(u) >= 1
        /\ mutex = "free"

-----------------------------------------------------------------------------
(* Claims about the responses of resolve *)

\* resolve of task t starts while the cache holds live records for its
\* question
CacheHit(t) ==
    /\ Running(t, "resolve", "start")
    /\ Get(store, now, Top(t).query.qname, Top(t).query.qtype).some

\* The step of resolve on a cache hit: the call returns Ok with the records
\* of the cache, QR=1, AA=0, ancount = |set| and the RA bit ra, and nothing is
\* submitted to the reactor
CacheHitStep(t, ra) ==
    (CacheHit(t) /\ ResolveStart(t)) =>
        LET set == Get(store, now, Top(t).query.qname, Top(t).query.qtype).val
            r == ret'[t]
        IN  /\ stack'[t] = Tail(stack[t])
            /\ r # None /\ r.ok
            /\ r.val.answers = set
            /\ r.val.authority = <<>> /\ r.val.additional = <<>>
            /\ ~r.val.query.header.is_query
            /\ ~r.val.query.header.is_authoritative_answer
            /\ r.val.query.header.answers_count = Len(set)
            /\ r.val.query.header.is_recursion_available = ra
            /\ chan' = chan /\ sent' = sent /\ registry' = registry

\* C21 (as the code has it): on a cache hit resolve returns from the cache,
\* without any reactor submission, a response with QR=1, AA=0, ancount equal
\* to the number of RRs of the set, and the RA bit of the query it was given.
C21_CacheHitAnswers ==
    [][\A t \in Tasks : CacheHitStep(t, Top(t).query.header.is_recursion_available)]_vars

\* C21 (as stated): the response resolve returns on a cache hit has RA=1.
C21_CacheHitHasRA ==
    [][\A t \in Tasks : CacheHitStep(t, TRUE)]_vars

\* The handler holds the answer resolve took from the cache for a client
C21_Witness ==
    \E t \in Tasks :
        /\ Running(t, "handle", "after_resolve")
        /\ ret[t] # None /\ ret[t].ok
        /\ ~ret[t].val.query.header.is_authoritative_answer
        /\ ~ret[t].val.query.header.is_recursion_available
        /\ ret[t].val.query.header.answers_count = Len(ret[t].val.answers)
        /\ Get(store, now, ret[t].val.query.qname, ret[t].val.query.qtype)
             = Some(ret[t].val.answers)

\* What get returns from a cache nothing was inserted into
FreshGet(domain, qtype) == Get(store, now, domain, qtype)

\* C22: in a newly constructed cache get(".", NS) returns the 13 root NS
\* records, get(name, A) and get(name, AAAA) return one record each for every
\* root name server, and get of an owner or type never stored returns absent.
C22_RootHintsPreloaded ==
    inserts = 0 =>
        /\ FreshGet(Root, "NS").some
        /\ Len(FreshGet(Root, "NS").val) = 13
        /\ \A i \in 1..RootCount :
              /\ FreshGet(Root, "NS").val[i].name = Root
              /\ FreshGet(Root, "NS").val[i].type = "NS"
              /\ \E j \in 1..RootCount : FreshGet(Root, "NS").val[j].data = RootServer(i)
              /\ FreshGet(RootServer(i), "A").some
              /\ Len(FreshGet(RootServer(i), "A").val) = 1
              /\ FreshGet(RootServer(i), "A").val[1].type = "A"
              /\ FreshGet(RootServer(i), "AAAA").some
              /\ Len(FreshGet(RootServer(i), "AAAA").val) = 1
              /\ FreshGet(RootServer(i), "AAAA").val[1].type = "AAAA"
              /\ FreshGet(RootServer(i), "TXT") = None
              /\ FreshGet(RootServer(i), "NS") = None
        /\ FreshGet(Root, "A") = None
        /\ \A q \in DriverQTypes : FreshGet(Missing, q) = None
        /\ (lastOp.op = "get" => lastOp.res = FreshGet(lastOp.domain, lastOp.qtype))

\* The driver asked a new cache for the NS records of the root and got 13
C22_Witness ==
    /\ inserts = 0
    /\ lastOp.op = "get"
    /\ lastOp.domain = Root /\ lastOp.qtype = "NS"
    /\ lastOp.res.some /\ Len(lastOp.res.val) = 13

\* The answers of a response are a CNAME record followed by the answers to
\* the A question for its target, and the header counts them all
CnameThenTarget(response, owner, target, target_answers) ==
    /\ response.answers = <<RR(owner, "CNAME", target, 300)>> \o target_answers
    /\ response.query.header.answers_count = 1 + Len(target_answers)

\* C23: cc. is a CNAME for ex., whose address is ip9: the response to the
\* client's question (cc, A) holds the CNAME and after it the A record of
\* ex., and its ancount is 2.
C23_CnameChased ==
    \A t \in Tasks :
        Asks(t, <<"cc">>) =>
            \A r \in Passed(t) :
                /\ r.ok
                /\ CnameThenTarget(r.val, NameC, Ex, <<RR(Ex, "A", "ip9", 300)>>)
                /\ r.val.query.header.answers_count = 2

\* The writer is handed the chased answer for cc
C23_Witness ==
    \E t \in Tasks :
        /\ Asks(t, <<"cc">>)
        /\ \E r \in Passed(t) : r.ok /\ Len(r.val.answers) = 2
                                /\ r.val.answers[1].type = "CNAME"
                                /\ r.val.answers[2].type = "A"

\* The counts of the header of a response are the lengths of its sections
CountsMatch(response) ==
    /\ response.query.header.answers_count = Len(response.answers)
    /\ response.query.header.ns_rr_count = Len(response.authority)
    /\ response.query.header.additional_rr_count = Len(response.additional)

\* The responses that calls of resolve have returned and that their callers
\* have not yet taken
Returned(t) ==
    IF ret[t] # None /\ ret[t].ok /\ "answers" \in DOMAIN ret[t].val
    THEN {ret[t].val} ELSE {}

\* C24: every response a successful resolve returns has header counts equal
\* to the lengths of its answers, authority and additional lists.
C24_CountsMatchSections ==
    \A t \in Tasks : \A response \in Returned(t) : CountsMatch(response)

-----------------------------------------------------------------------------
(* Claims about the names and the flags the resolver emits *)

\* The queries task t works on: those of the calls on its stack
QueriesOf(t) ==
    {stack[t][i].query : i \in {j \in 1..Len(stack[t]) : "query" \in DOMAIN stack[t][j]}}

\* The queries handed to the reactor and not yet answered
SubmittedQueries ==
    {chan[i].query : i \in 1..Len(chan)}
        \cup (IF inflight.some THEN {inflight.val.query} ELSE {})
        \cup {registry[id].query : id \in DOMAIN registry}

\* C25: every qname of a query the resolver works on and submits to the
\* reactor ends with ".": the client's after the rewrite, the parent zones,
\* the name servers of pass 2 and the CNAME targets.
C25_QnamesAbsolute ==
    /\ \A q \in SubmittedQueries : EndsWithDot(q.qname)
    /\ \A t \in Tasks : \A q \in QueriesOf(t) : EndsWithDot(q.qname)

\* The reactor holds the query for ex., the target of the CNAME of cc., and
\* the client wrote cc without the final dot
C25_Witness ==
    /\ Asks("t1", <<"cc">>)
    /\ \E q \in SubmittedQueries : q.qname = Ex /\ q.qtype = "A"

\* C26: every response emitted to a client, on Ok and on QueryError alike,
\* has RA=1.
C26_RecursionAvailable ==
    \A o \in outbox : o.dgram.hdr.ra


-----------------------------------------------------------------------------
(* Claims about the registry of the reactor *)

\* The reactor reads d, which decodes and carries an id that is not registered
Orphan(d) ==
    /\ ReactorRecv(d)
    /\ Decodes(d)
    /\ d.hdr.id \notin DOMAIN registry

\* C27: a reply whose id is not in the registry is dropped: the datagram is
\* consumed, the registry and every one-shot channel are left as they were, no
\* waiter is fulfilled and the reactor goes on.
C27_OrphanDropped ==
    [][\A d \in wire :
          Orphan(d) =>
              /\ wire' = wire \ {d}
              /\ registry' = registry
              /\ regOrder' = regOrder
              /\ oneshot' = oneshot
              /\ chan' = chan
              /\ reactor' = "running"]_vars

\* A reply with the id 1 was read and dropped while the only submission made,
\* under the id 2, stays registered and its submitter still waits
C27_Witness ==
    /\ injected = 1
    /\ wire \cap Junk = {}
    /\ reactor = "running"
    /\ tstate["t2"] = "idle"
    /\ DOMAIN registry = {2}
    /\ registry[2].respond_tx.t = "t1"
    /\ Waiting(registry[2].respond_tx)


\* The reactor sends and registers a submission whose id is already registered
Collision ==
    /\ inflight.some
    /\ inflight.val.query.header.id \in DOMAIN registry
    /\ ReactorSubmit(TRUE)

\* C28: when a submission arrives whose transaction id is already registered,
\* the reactor panics and does not replace the registration, so the completion
\* registered earlier is not discarded unfulfilled.
C28_CollisionPanics ==
    [][Collision =>
          LET id == inflight.val.query.header.id
              earlier == registry[id].respond_tx
          IN  /\ reactor' # "running"
              /\ id \in DOMAIN registry' => registry'[id] = registry[id]
              /\ Waiting(earlier) => oneshot'[earlier.t].st # "dropped"]_vars


\* The name and the type of the question of q as they go on the wire
WireQuestion(q) ==
    [qlabels |-> serialize_query(q).qlabels, qtype |-> serialize_query(q).qtype]

\* C29: a completion is only ever fulfilled with the reply to the query its
\* own submitter sent: under any interleaving of concurrent resolutions the
\* response a waiter receives, which it then caches, has the question the
\* waiter submitted.
C29_ReplyAnswersOwnQuestion ==
    \A t \in Tasks :
        (/\ oneshot[t].st = "value"
         /\ oneshot[t].val.val # None
         /\ Running(t, "request", "await")) =>
            WireQuestion(oneshot[t].val.val.query) = WireQuestion(Top(t).query)


-----------------------------------------------------------------------------
(* Claims about fetch_name_servers *)

\* a and b are the same name, written with or without the final dot
SameName(a, b) == a = b \/ PushDot(a) = b \/ a = PushDot(b)

\* The delegation set fetch_name_servers takes from the response r of
\* resolve(parent_zone(Q), NS)
DelegationSet(r) == IF Len(r.answers) > 0 THEN r.answers ELSE r.authority

\* Task t is in fetch_name_servers(Q) with the delegation set of the parent
\* zone at hand, and a name server of the set is named Q
SelfDelegation(t) ==
    /\ Running(t, "fetch_name_servers", "after_parent")
    /\ ret[t].ok
    /\ \E i \in 1..Len(DelegationSet(ret[t].val)) :
          /\ DelegationSet(ret[t].val)[i].type = "NS"
          /\ SameName(DelegationSet(ret[t].val)[i].data, Top(t).domain)

\* C30: fetch_name_servers(Q) fails with InfiniteRecursionError whenever the
\* delegation set obtained from resolve(parent_zone(Q), NS) contains an NS
\* record whose target equals Q, with or without the final dot, and it does
\* so before the NS query for Q is issued.
C30_SelfDelegationFails ==
    [][\A t \in Tasks : \A id \in Ids :
          (SelfDelegation(t) /\ FetchAfterParent(t, id)) =>
              /\ ret'[t] = Err("InfiniteRecursionError", None)
              /\ stack'[t] = Tail(stack[t])
              /\ UNCHANGED <<chan, registry, sent>>]_vars

\* fetch_name_servers(n.zs.) has returned InfiniteRecursionError to
\* resolve_from_name_servers, and no NS query for n.zs. was sent
C30_Witness ==
    /\ Asks("t1", <<"n", DOT, "zs">>)
    /\ Running("t1", "resolve_from_name_servers", "after_fetch")
    /\ ret["t1"] = Err("InfiniteRecursionError", None)
    /\ \A s \in sent : AskedName(s) # NS1


-----------------------------------------------------------------------------
(* The functions of the resolver and of the codec called on their own, as   *)
(* the unit tests of the repository call them.  The call and its result are *)
(* kept in lastOp.                                                          *)

MaxRecords == 2

Www == <<"www", DOT, "ex", DOT>>

\* The sequences over set of at most n elements
RECURSIVE SeqsUpTo(_, _)
SeqsUpTo(set, n) ==
    IF n = 0 THEN {<<>>}
    ELSE LET shorter == SeqsUpTo(set, n - 1)
         IN  shorter \cup {Append(s, x) : s \in shorter, x \in set}

\* The records a server puts into the reply to the NS query for www.ex.
SectionRRs ==
    {RR(Www, "NS", NEx, 300), RR(Www, "CNAME", Ex, 300), RR(Ex, "SOA", Hostmaster, 300)}

\* The NS set of the parent zone ex.
ParentSet == <<RR(Ex, "NS", NEx, 300), RR(Ex, "NS", MEx, 300)>>

\* A response to the NS query for www.ex. with the given sections
NsResponse(answers, authority) ==
    [query |-> Query(Header(1, FALSE, FALSE, TRUE, FALSE, "NoError",
                            Len(answers), Len(authority), 0), Www, "NS"),
     answers |-> answers, authority |-> authority, additional |-> <<>>]

\* Nothing but lastOp changes
OnlyLastOp ==
    /\ UNCHANGED <<now, store, inserts, world, mutex>>
    /\ UNCHANGED reactorVars
    /\ UNCHANGED taskVars

\* The end of fetch_name_servers on a response with the given sections
CallClassify(answers, authority) ==
    /\ lastOp' = [op |-> "classify", answers |-> answers, authority |-> authority,
                  res |-> Classify(NsResponse(answers, authority), ParentSet)]
    /\ OnlyLastOp

MaxLabels == 3

\* The labels of the names the functions are called on
CodecLabels == {"www", "google", "com"}

\* The lists of one to MaxLabels labels
LabelLists == SeqsUpTo(CodecLabels, MaxLabels) \ {<<>>}

\* The absolute name with the given labels
Absolute(labels) == PushDot(Join(labels))

\* parent_zone(zone) for the absolute name with the given labels, or for "."
\* when there are none
CallParentZone(labels) ==
    LET zone == IF labels = <<>> THEN Root ELSE Absolute(labels)
    IN  /\ lastOp' = [op |-> "parent_zone", labels |-> labels, zone |-> zone,
                      res |-> parent_zone(zone)]
        /\ OnlyLastOp

\* The bytes of a label (str::as_bytes)
as_bytes(label) ==
    CASE label = "www" -> <<119, 119, 119>>
      [] label = "google" -> <<103, 111, 111, 103, 108, 101>>
      [] label = "com" -> <<99, 111, 109>>

\* The character of a byte
Chr(b) ==
    CASE b = 99 -> "c"
      [] b = 101 -> "e"
      [] b = 103 -> "g"
      [] b = 108 -> "l"
      [] b = 109 -> "m"
      [] b = 111 -> "o"
      [] b = 119 -> "w"
      [] OTHER -> "?"

\* std::str::from_utf8 of bytes that are letters
RECURSIVE from_utf8(_)
from_utf8(bytes) ==
    IF bytes = <<>> THEN "" ELSE Chr(Head(bytes)) \o from_utf8(Tail(bytes))

\* Each label as its length and its bytes
RECURSIVE LabelParts(_)
LabelParts(labels) ==
    IF labels = <<>> THEN <<>>
    ELSE <<Len(Head(labels))>> \o as_bytes(Head(labels)) \o LabelParts(Tail(labels))

\* An encoding in which the dot at the end of a name stands for one more,
\* empty, label
serialize_domain_unfiltered(domain) ==
    IF domain = Root THEN <<0>>
    ELSE LabelParts(SelectSeq(domain, LAMBDA tok : tok # DOT))
         \o (IF EndsWithDot(domain) THEN <<0, 0>> ELSE <<0>>)

\* DNSQuestionQuery::serialize_domain: the bytes of a name.  split('.') and
\* the filter leave the non-empty labels, which are the tokens other than
\* the dot
serialize_domain(domain) ==
    IF domain = Root THEN <<0>>
    ELSE LabelParts(SelectSeq(domain, LAMBDA tok : tok # DOT)) \o <<0>>

\* The spellings of the name with the given labels: as it is, with a dot at
\* its end, with a dot at its start
Spelling(labels, form) ==
    CASE form = "relative" -> Join(labels)
      [] form = "absolute" -> Absolute(labels)
      [] form = "leading" -> <<DOT>> \o Join(labels)

Forms == {"relative", "absolute", "leading"}

\* serialize_domain of "." when there are no labels, else of a spelling of
\* the name with the given labels
CallSerializeDomain(labels, form) ==
    LET domain == IF labels = <<>> THEN Root ELSE Spelling(labels, form)
    IN  /\ lastOp' = [op |-> "serialize_domain", labels |-> labels, form |-> form,
                      domain |-> domain, bytes |-> serialize_domain(domain)]
        /\ OnlyLastOp

\* The header takes the first 96 / 8 bytes of a message
HeaderLen == 12

PanicIndex == "panic: index out of bounds"
PanicUnwrapNone == "panic: unwrap on None"

\* The type codes QType::decimal_to_qtype knows
KnownQTypes == {1, 2, 5, 6, 12, 15, 16, 28, 252, 253, 254, 255}

\* The loop of deserialize_question_section over the labels of the question,
\* from the byte at index on (indices count from 0, as in the code)
RECURSIVE question_labels(_, _, _)
question_labels(buf, index, labels) ==
    IF index >= Len(buf) THEN Err(PanicIndex, None)
    ELSE LET octet_length == buf[index + 1]
         IN  IF octet_length = 0
             THEN Ok([labels |-> IF index = HeaderLen THEN Append(labels, DOT)
                                 ELSE labels,
                      index |-> index])
             ELSE IF index + 1 + octet_length > Len(buf) THEN Err(PanicIndex, None)
             ELSE question_labels(buf, index + octet_length + 1,
                      Append(labels, from_utf8(SubSeq(buf, index + 2,
                                                      index + 1 + octet_length))))

\* DNSQuery::deserialize_question_section for a message with one question:
\* the question, with the labels joined by "." as its qname and the class
\* never read
deserialize_question_section(buf) ==
    LET read == question_labels(buf, HeaderLen, <<>>)
        index == read.val.index
        qtype_u16 == buf[index + 2] * 256 + buf[index + 3]
    IN  IF ~read.ok THEN read
        ELSE IF index + 3 > Len(buf) THEN Err(PanicIndex, None)
        ELSE IF qtype_u16 \notin KnownQTypes THEN Err(PanicUnwrapNone, None)
        ELSE Ok([qname |-> Join(read.val.labels),
                 qtype |-> decimal_to_qtype(qtype_u16),
                 qclass |-> "IN"])

\* The header of a query with one question
QueryHeaderBytes == <<0, 1, 1, 0, 0, 1, 0, 0, 0, 0, 0, 0>>

\* The types the questions ask for
AskedCodes == {1, 2}

\* deserialize_question_section of a query for the name with the given
\* labels, "." when there are none, in the class IN
CallDeserializeQuestion(labels, code) ==
    LET domain == IF labels = <<>> THEN Root ELSE Absolute(labels)
        buf == QueryHeaderBytes \o serialize_domain(domain) \o <<0, code, 0, 1>>
    IN  /\ lastOp' = [op |-> "deserialize_question", labels |-> labels,
                      code |-> code, buf |-> buf,
                      res |-> deserialize_question_section(buf)]
        /\ OnlyLastOp

\* The calls of read_labels the stack of a thread has room for
MaxDepth == 4

AbortOverflow == "abort: stack overflow"

\* labels.join(".") of labels that are names themselves
RECURSIVE JoinNames(_)
JoinNames(labels) ==
    IF labels = <<>> THEN <<>>
    ELSE IF Len(labels) = 1 THEN labels[1]
    ELSE labels[1] \o <<DOT>> \o JoinNames(Tail(labels))

\* The end of read_labels: the labels joined, with a dot at the end of a name
\* longer than one byte that has none, and the index after the name
joined_labels(labels, index) ==
    LET joined == JoinNames(labels)
    IN  Ok([name |-> IF ByteLen(joined) > 1 /\ ~EndsWithDot(joined)
                     THEN PushDot(joined) ELSE joined,
            next |-> index + 1])

\* read_labels(buf, offset) on the bytes of a message, compression pointers
\* included (indices count from 0, as in the code); depth is the number of
\* calls of read_labels on the stack.  A pointer is followed by a call of
\* read_labels at its target, whatever the target is.
RECURSIVE read_labels_buf(_, _, _)
RECURSIVE read_labels_loop(_, _, _, _)
read_labels_buf(buf, offset, depth) ==
    IF depth > MaxDepth THEN Err(AbortOverflow, None)
    ELSE IF offset >= Len(buf) THEN Err(PanicIndex, None)
    ELSE IF buf[offset + 1] = 0 THEN Ok([name |-> Root, next |-> offset + 1])
    ELSE read_labels_loop(buf, offset, <<>>, depth)

\* The loop of read_labels from the byte at index on
read_labels_loop(buf, index, labels, depth) ==
    IF index >= Len(buf) THEN Err(PanicIndex, None)
    ELSE LET octet_length == buf[index + 1]
         IN  IF octet_length >= 192
             THEN IF index + 2 > Len(buf) THEN Err(PanicIndex, None)
                  ELSE LET pointer_to_label == (octet_length % 64) * 256 + buf[index + 2]
                           from_pointer == read_labels_buf(buf, pointer_to_label,
                                                           depth + 1)
                       IN  IF ~from_pointer.ok THEN from_pointer
                           ELSE joined_labels(Append(labels, from_pointer.val.name),
                                              index + 1)
             ELSE IF octet_length = 0 THEN joined_labels(labels, index)
             ELSE IF index + 1 + octet_length > Len(buf) THEN Err(PanicIndex, None)
             ELSE read_labels_loop(buf, index + octet_length + 1,
                      Append(labels, <<from_utf8(SubSeq(buf, index + 2,
                                                        index + 1 + octet_length))>>),
                      depth)

\* A message that holds the name com. and after it a name of the given
\* labels that ends with a pointer to the byte at target
PointerMessage(labels, target) ==
    serialize_domain(<<"com", DOT>>) \o LabelParts(labels) \o <<192, target>>

\* Where the second name of such a message starts, and where its pointer is
NameStart == Len(serialize_domain(<<"com", DOT>>))
PointerAt(labels) == NameStart + Len(LabelParts(labels))

\* The labels before the pointer, and the targets of the pointer: every byte
\* of the message and the two places after its end
PointerLabels == {<<>>, <<"www">>}
PointerTargets(labels) == 0..(Len(PointerMessage(labels, 0)) + 1)

\* read_labels at the second name of a message
CallReadLabels(labels, target) ==
    LET buf == PointerMessage(labels, target)
    IN  /\ lastOp' = [op |-> "read_labels", labels |-> labels, target |-> target,
                      buf |-> buf, res |-> read_labels_buf(buf, NameStart, 1)]
        /\ OnlyLastOp

\* The seconds since startup at which the root is looked up: at startup,
\* and around the time the TTL of the root hints has passed
Uptimes == {0, 1, RootTTL - 1, RootTTL, RootTTL + 1, RootTTL + 2}

\* fetch_name_servers(".") up to its first decision on a cache nobody has
\* written to for uptime seconds: the NS set of the cache, or the call of
\* resolve for the NS set of parent_zone(".")
CallFetchRoot(uptime) ==
    /\ lastOp' = [op |-> "fetch_root", uptime |-> uptime,
                  cached |-> Get(store, now + uptime, Root, "NS"),
                  parent |-> parent_zone(Root)]
    /\ OnlyLastOp

FunctionsInit == InitCache /\ QuietRest

FunctionsNext ==
    \/ \E answers, authority \in SeqsUpTo(SectionRRs, MaxRecords) :
          CallClassify(answers, authority)
    \/ \E uptime \in Uptimes : CallFetchRoot(uptime)
    \/ \E labels \in LabelLists \cup {<<>>} : CallParentZone(labels)
    \/ \E labels \in LabelLists \cup {<<>>}, form \in Forms :
          CallSerializeDomain(labels, form)
    \/ \E labels \in LabelLists \cup {<<>>}, code \in AskedCodes :
          CallDeserializeQuestion(labels, code)
    \/ \E labels \in PointerLabels : \E target \in PointerTargets(labels) :
          CallReadLabels(labels, target)

SpecFunctions == FunctionsInit /\ [][FunctionsNext]_vars

-----------------------------------------------------------------------------
(* Claims about the classification of fetch_name_servers *)

\* Every record of the section is an NS record
OnlyNS(records) == \A i \in 1..Len(records) : records[i].type = "NS"

\* C31: after the NS query for Q against the parent's NS set P,
\* fetch_name_servers returns the answers flagged exact if they are non-empty
\* and all NS records, the authority records flagged exact if the answers are
\* empty and the authority records are all NS records, and P itself flagged
\* inherited in every other case.
C31_Classified ==
    lastOp.op = "classify" =>
        LET answers == lastOp.answers
            authority == lastOp.authority
        IN  lastOp.res =
                IF answers # <<>> /\ OnlyNS(answers)
                THEN [name_servers |-> answers, is_grand_parent_ns |-> FALSE]
                ELSE IF answers = <<>> /\ OnlyNS(authority)
                THEN [name_servers |-> authority, is_grand_parent_ns |-> FALSE]
                ELSE [name_servers |-> ParentSet, is_grand_parent_ns |-> TRUE]

\* A referral: no answers, an NS record in the authority section, returned as
\* the exact set
C31_Witness ==
    /\ lastOp.op = "classify"
    /\ lastOp.answers = <<>>
    /\ lastOp.authority = <<RR(Www, "NS", NEx, 300)>>
    /\ lastOp.res.name_servers = lastOp.authority
    /\ ~lastOp.res.is_grand_parent_ns


-----------------------------------------------------------------------------
(* Claims about resolve_from_name_servers and resolve_from_authority *)

\* fetch_name_servers(Q) has returned an inherited set to task t
InheritedReturned(t) ==
    /\ Running(t, "resolve_from_name_servers", "after_fetch")
    /\ ret[t].ok
    /\ ret[t].val.is_grand_parent_ns

\* The inherited set task t is inserting
InheritedSet(t) ==
    IF Top(t).pc = "for_each" THEN Top(t).name_servers ELSE ret[t].val.name_servers

\* Task t makes the last turn of the loop over its inherited set
InheritsLast(t) ==
    \/ /\ InheritedReturned(t)
       /\ Len(ret[t].val.name_servers) <= 1
       /\ NameServersAfterFetch(t)
    \/ /\ Running(t, "resolve_from_name_servers", "for_each")
       /\ Top(t).i = Len(Top(t).name_servers)
       /\ NameServersForEach(t)

\* The records of a set with their owner rewritten to domain
Renamed(name_servers, domain) ==
    {[name_servers[i] EXCEPT !.name = domain] : i \in 1..Len(name_servers)}

\* The records cache.get(domain, qtype) returns
Found(st, t, domain, qtype) ==
    LET got == Get(st, t, domain, qtype)
    IN  IF got.some THEN {got.val[i] : i \in 1..Len(got.val)} ELSE {}

\* C32: when fetch_name_servers(Q) returns an inherited set, every NS record of
\* it is inserted into the cache with its owner rewritten to Q, so that
\* cache.get(Q, NS) then returns the whole set.
C32_InheritedSetCached ==
    [][\A t \in Tasks :
          InheritsLast(t) =>
              Renamed(InheritedSet(t), Top(t).query.qname)
                  \subseteq Found(store', now', Top(t).query.qname, "NS")]_vars


\* Task t runs resolve_from_authority and has no result of request at hand
InLoops(t) ==
    /\ tstate[t] = "running"
    /\ stack[t] # <<>>
    /\ Top(t).fn = "resolve_from_authority"
    /\ Top(t).pc \in {"pass1", "pass2", "after_resolve"}

\* Task t calls request
CallsRequest(t) == stack'[t] # <<>> /\ Head(stack'[t]).fn = "request"

\* Task t returns from the call it runs
Returns(t) == stack'[t] = Tail(stack[t])

\* C33: resolve_from_authority returns NoIPError when neither pass yields a
\* response for any name server of ns_set: whenever it returns without the
\* result of a call of request it returns NoIPError, with an empty ns_set it
\* never calls request, and a nested resolve that failed in pass 2 is followed
\* by the next name server, not by a call of request or a return of the error.
C33_NoAddressIsNoIPError ==
    [][\A t \in Tasks :
          (InLoops(t) /\ stack'[t] # stack[t]) =>
              /\ Returns(t) => ret'[t] = Err("NoIPError", None)
              /\ Top(t).ns_records = <<>> => ~CallsRequest(t)
              /\ (Top(t).pc = "after_resolve" /\ ~ret[t].ok) =>
                    /\ ~CallsRequest(t)
                    /\ ~Returns(t)
                    /\ Head(stack'[t]).pc = "pass2"
                    /\ Head(stack'[t]).i = Top(t).i + 1]_vars

\* The servers of ex. answered the NS query for em.ex. with no record at all:
\* resolve_from_authority was called with an empty set and has returned
\* NoIPError
C33_Witness ==
    /\ Asks("t1", <<"em", DOT, "ex">>)
    /\ Running("t1", "resolve", "after_name_servers")
    /\ Top("t1").query.qname = EmEx
    /\ ret["t1"] = Err("NoIPError", None)


-----------------------------------------------------------------------------
(* Claims about the CNAME chase of resolve *)

\* C34: resolve chases CNAME records only when the type of the query is not
\* CNAME: a response to a query of type CNAME goes back to the caller as it
\* was received, with its answers and its count, and no resolve for a target
\* is issued.
C34_CnameQueryNotChased ==
    [][\A t \in Tasks :
          (/\ Running(t, "resolve", "after_name_servers")
           /\ Top(t).query.qtype = "CNAME"
           /\ ret[t].ok
           /\ ResolveAfterNameServers(t)) =>
              /\ Returns(t)
              /\ ret'[t] = ret[t]]_vars


\* The resolve of a CNAME target has returned an error to task t
ChaseFailed(t) ==
    /\ Running(t, "resolve", "after_cname")
    /\ ~ret[t].ok

\* C35: if resolving a CNAME target fails with any error, resolve goes on with
\* the next CNAME record and keeps the answers obtained so far, and it returns
\* Ok with the CNAME records followed by the answers of the targets that did
\* resolve; the error is never returned to the caller.
C35_ChaseErrorTolerated ==
    [][\A t \in Tasks :
          /\ (ChaseFailed(t) /\ ResolveAfterCname(t)) =>
                /\ ~Returns(t)
                /\ Head(stack'[t]) = [Top(t) EXCEPT !.pc = "cnames", !.i = @ + 1]
          /\ (Running(t, "resolve", "cnames") /\ stack'[t] # stack[t] /\ Returns(t)) =>
                /\ ret'[t].ok
                /\ ret'[t].val.answers = Top(t).result.answers \o Top(t).cnames]_vars

\* resolve(cd., A) has returned Ok with the two CNAME records of cd. and the
\* address of ex., the target that resolved; the target rf.ex. was refused
C35_Witness ==
    /\ Asks("t1", <<"cd">>)
    /\ Running("t1", "handle", "after_resolve")
    /\ ret["t1"] # None
    /\ ret["t1"].ok
    /\ ret["t1"].val.answers = <<RR(NameD, "CNAME", Ex, 300), RR(NameD, "CNAME", RfEx, 300),
                                 RR(Ex, "A", "ip9", 300)>>


-----------------------------------------------------------------------------
(* Claims about the root hints *)

\* C36: the NS set of the root is always served from the cache: at every
\* clock value reachable after startup the preloaded root hints are live, so
\* that fetch_name_servers(".") returns them without recursing.
C36_RootAlwaysCached ==
    lastOp.op = "fetch_root" =>
        /\ lastOp.cached.some
        /\ Len(lastOp.cached.val) = RootCount


-----------------------------------------------------------------------------
(* Claims about parent_zone and the codec of names *)

\* parent_zone applied k times
RECURSIVE Ancestor(_, _)
Ancestor(zone, k) == IF k = 0 THEN zone ELSE Ancestor(parent_zone(zone), k - 1)

\* C38: parent_zone(Q) removes the leftmost label of an absolute name Q:
\* parent_zone("www.google.com.") = "google.com.", parent_zone("google.com.")
\* = "com.", parent_zone("com.") = "."; for an absolute name of n >= 1 labels
\* the result has n-1 labels, and n applications reach ".", no fewer.
C38_ParentZone ==
    (lastOp.op = "parent_zone" /\ lastOp.labels # <<>>) =>
        LET labels == lastOp.labels
            n == Len(labels)
        IN  /\ lastOp.res = IF n = 1 THEN Root ELSE Absolute(Tail(labels))
            /\ labels = <<"www", "google", "com">> =>
                  lastOp.res = <<"google", DOT, "com", DOT>>
            /\ labels = <<"google", "com">> => lastOp.res = <<"com", DOT>>
            /\ labels = <<"com">> => lastOp.res = <<DOT>>
            /\ Ancestor(lastOp.zone, n) = Root
            /\ \A k \in 0..(n - 1) : Ancestor(lastOp.zone, k) # Root

\* parent_zone("www.google.com.") was computed
C38_Witness ==
    /\ lastOp.op = "parent_zone"
    /\ lastOp.zone = <<"www", DOT, "google", DOT, "com", DOT>>
    /\ lastOp.res = <<"google", DOT, "com", DOT>>


\* The labels, each after its length, and the byte 0 at the end
RECURSIVE LengthPrefixed(_)
LengthPrefixed(labels) ==
    IF labels = <<>> THEN <<0>>
    ELSE <<Len(Head(labels))>> \o as_bytes(Head(labels)) \o LengthPrefixed(Tail(labels))

WwwGoogleCom == <<"www", DOT, "google", DOT, "com">>

\* C40: on emit "." encodes to the single byte 0 and any other name to its
\* non-empty labels, each after its length, with the byte 0 at the end; hence
\* a name encodes to the same bytes with and without the dot at its end, as
\* "www.google.com" and "www.google.com." do.
C40_NameEncoding ==
    lastOp.op = "serialize_domain" =>
        /\ lastOp.bytes = LengthPrefixed(lastOp.labels)
        /\ lastOp.domain = Root => lastOp.bytes = <<0>>
        /\ (lastOp.domain # Root /\ lastOp.form = "relative") =>
              serialize_domain(PushDot(lastOp.domain)) = lastOp.bytes
        /\ lastOp.domain \in {WwwGoogleCom, PushDot(WwwGoogleCom)} =>
              lastOp.bytes = <<3, 119, 119, 119, 6, 103, 111, 111, 103, 108, 101,
                               3, 99, 111, 109, 0>>

\* "www.google.com." was encoded
C40_Witness ==
    /\ lastOp.op = "serialize_domain"
    /\ lastOp.domain = PushDot(WwwGoogleCom)
    /\ Len(lastOp.bytes) = 16


\* C39: decoding the question bytes 3 w w w 6 g o o g l e 3 c o m 0 | 00 01 |
\* 00 01 yields the qname "www.google.com." with the dot at its end, the qtype
\* A and the qclass IN; in general the qname decoded from a question is its
\* labels joined by "." and ending with ".".
C39_QuestionDecoding ==
    lastOp.op = "deserialize_question" =>
        /\ lastOp.res.ok
        /\ lastOp.res.val.qclass = "IN"
        /\ lastOp.res.val.qtype = decimal_to_qtype(lastOp.code)
        /\ EndsWithDot(lastOp.res.val.qname)
        /\ lastOp.labels # <<>> => lastOp.res.val.qname = Absolute(lastOp.labels)
        /\ (lastOp.labels = <<"www", "google", "com">> /\ lastOp.code = 1) =>
              /\ lastOp.res.val.qname = PushDot(WwwGoogleCom)
              /\ lastOp.res.val.qtype = "A"


\* The pointer of the message of the last call points outside the message
PointsOutside == lastOp.target >= Len(lastOp.buf)

\* The pointer of the message of the last call points at the name it ends, or
\* at itself
PointsBack == lastOp.target \in {NameStart, PointerAt(lastOp.labels)}

\* C37: decoding a name whose compression pointers form a loop or point
\* outside the message terminates and yields the BadPointer error.
C37_BadPointerReported ==
    (lastOp.op = "read_labels" /\ (PointsOutside \/ PointsBack)) =>
        lastOp.res = Err("BadPointer", None)

====
